---- MODULE Spec2Model ----
(***************************************************************************)
(* Model of the environment-validation engine of @ayronforge/envil         *)
(* (src/src/env.ts) together with the schema combinators it decodes with   *)
(* (schemas.ts) and the prefix resolver (src/src/prefix.ts).               *)
(*                                                                         *)
(* A resolved environment is an object with an identity: the model keeps   *)
(* the objects created so far in envs, and the WeakMap side table in       *)
(* envMetaStore.  One createEnv call without resolvers is one action.  A   *)
(* createEnv call with resolvers is an effect: RunEffect starts it, every  *)
(* resolver completes or fails in its own step, and the step in which the  *)
(* last resolver completes also runs Effect.map/Effect.flatMap (merge and  *)
(* buildEnv), since those run synchronously in the same fiber.             *)
(***************************************************************************)
EXTENDS Integers, Sequences, FiniteSets, TLC

VARIABLES
    envs,            \* resolved environment objects created so far
    envMetaStore,    \* WeakMap<object, EnvMeta>, keyed by index in envs
    last,            \* what the last operation observed (call or proxy trap)
    effect,          \* the running createEnv effect (resolver form)
    introspectOnly,  \* process.env.ENVIL_INTROSPECT_ONLY === "1"
    processEnv,      \* the other variables of process.env
    calls,           \* createEnv calls and effect runs so far
    declared         \* history: the options each environment was built from

vars == <<envs, envMetaStore, last, effect, introspectOnly, processEnv, calls, declared>>

-----------------------------------------------------------------------------
(* Bounds *)

\* createEnv calls of one behaviour, where environments extend one another
MaxCalls == 2
\* createEnv calls of one behaviour, where the whole option space is drawn
MaxValidateCalls == 1
\* runs of one createEnv effect
MaxRuns == 1
\* length of the extends list
MaxExtends == 1
\* createEnv calls of one behaviour, where extended values are merged
MaxMergeCalls == 3
\* length of the extends list, where extended values are merged
MaxMergeExtends == 2
\* entries of a dotenv document
MaxEntries == 2
\* length of the resolvers list
MaxResolvers == 2
\* assignments of an example text
MaxTextEntries == 1
\* runs of `add env` on one example file
MaxPasses == 2
\* assignments of an example text whose buckets are inferred
MaxInferEntries == 2
\* assignments and blank lines of an example text with rejected directives
MaxDecodeGroups == 2
\* keys of the secrets record of a resolver
MaxSecrets == 2
\* comment lines above the assignment of an example text
MaxCommentLines == 2

-----------------------------------------------------------------------------
(* Values *)

\* JavaScript undefined, as a raw environment value
Undefined == "$undefined"

\* schema keys, in the order the dictionaries list them
KeyOrder == <<"A", "B">>
Keys == {KeyOrder[i] : i \in 1..Len(KeyOrder)}

\* decoded values: a plain payload under `red` Redacted wrappers
StrVal(s) == [t |-> "string", s |-> s, red |-> 0]
ArrVal(a) == [t |-> "array", s |-> a, red |-> 0]
UndefVal == [t |-> "undefined", s |-> "", red |-> 0]

\* Redacted.make(value)
RedactedMake(v) == [v EXCEPT !.red = @ + 1]

\* mutant: nothing is recognised as wrapped
IsRedactedNever(v) == FALSE

\* Redacted.isRedacted(value)
IsRedacted(v) == v.red > 0

\* Body(value), with value evaluated once
With(value, Body(_)) == CHOOSE result \in {Body(v) : v \in {value}} : TRUE

\* lookup of a property of a plain object: absent reads as undefined
Lookup(obj, name) == IF name \in DOMAIN obj THEN obj[name] ELSE Undefined

-----------------------------------------------------------------------------
(* Schemas (schemas.ts) *)

requiredString == [kind |-> "requiredString"]
commaSeparatedNumbers == [kind |-> "commaSeparatedNumbers"]
withDefault(schema, d) == [kind |-> "withDefault", d |-> d, inner |-> schema]
optional(schema) == [kind |-> "optional", inner |-> schema]
redacted(schema) == [kind |-> "redacted", inner |-> schema]

Right(v) == [tag |-> "Right", value |-> v]
Left == [tag |-> "Left", value |-> UndefVal]
Throw == [tag |-> "Throw", value |-> UndefVal]

\* Number(x.trim()) is NaN: the only non-numeric raw token of the model is "x"
IsNaNToken(raw) == raw = "x"

\* values of the type side (Schema.typeSchema) of a schema
RECURSIVE TypeOk(_, _)
TypeOk(schema, v) ==
    CASE schema.kind = "requiredString" -> v.t = "string" /\ v.red = 0 /\ v.s # ""
      [] schema.kind = "commaSeparatedNumbers" -> v.t = "array" /\ v.red = 0
      [] schema.kind = "withDefault" -> TypeOk(schema.inner, v)
      [] schema.kind = "optional" -> v = UndefVal \/ TypeOk(schema.inner, v)
      [] schema.kind = "redacted" ->
            v.red > 0 /\ TypeOk(schema.inner, [v EXCEPT !.red = @ - 1])

\* mutant: the decoded value is passed on without the default
ValueWithoutDefault(value, defaultValue) == value

\* value ?? defaultValue, the decode side of withDefault
ValueOrDefault(value, defaultValue) == IF value = UndefVal THEN defaultValue ELSE value

\* Schema.decodeUnknownEither(validator)(rawValue); a decode callback that
\* throws inside Schema.transform is not caught by the decoder
RECURSIVE Decode(_, _)
Decode(schema, raw) ==
    CASE schema.kind = "requiredString" ->
            IF raw = Undefined \/ raw = "" THEN Left ELSE Right(StrVal(raw))
      [] schema.kind = "commaSeparatedNumbers" ->
            IF raw = Undefined THEN Left
            ELSE IF IsNaNToken(raw) THEN Throw
            ELSE Right(ArrVal(IF raw = "" THEN "0" ELSE raw))
      [] schema.kind = "optional" ->
            LET r == Decode(schema.inner, raw) IN
            IF r.tag = "Left" /\ raw = Undefined THEN Right(UndefVal) ELSE r
      [] schema.kind = "withDefault" ->
            LET r == Decode(schema.inner, raw)
                u == IF r.tag = "Left" /\ raw = Undefined THEN Right(UndefVal) ELSE r
                v == ValueOrDefault(u.value, schema.d)
            IN  IF u.tag # "Right" THEN u
                ELSE IF TypeOk(schema.inner, v) THEN Right(v) ELSE Left
      [] schema.kind = "redacted" ->
            LET r == Decode(schema.inner, raw) IN
            IF r.tag = "Right" THEN Right(RedactedMake(r.value)) ELSE r

-----------------------------------------------------------------------------
(* Prefix resolver (prefix.ts) *)

PrefixUndefined == [type |-> "undefined"]
PrefixString(p) == [type |-> "string", value |-> p]
PrefixObject(m) == [type |-> "object", map |-> m]

\* `prefix.server ?? ""` on a per-category map
PrefixOrEmpty(p) == IF p = Undefined THEN "" ELSE p

resolvePrefixMap(prefix) ==
    IF prefix.type = "undefined" THEN [server |-> "", client |-> "", shared |-> ""]
    ELSE IF prefix.type = "string"
    THEN [server |-> prefix.value, client |-> prefix.value, shared |-> prefix.value]
    ELSE [server |-> PrefixOrEmpty(Lookup(prefix.map, "server")),
          client |-> PrefixOrEmpty(Lookup(prefix.map, "client")),
          shared |-> PrefixOrEmpty(Lookup(prefix.map, "shared"))]

-----------------------------------------------------------------------------
(* Errors (errors.ts, resolvers/types.ts) *)

NoError == [type |-> "none", errors |-> <<>>, name |-> ""]
EnvValidationError(errors) == [type |-> "EnvValidationError", errors |-> errors, name |-> ""]
ClientAccessError(variableName) ==
    [type |-> "ClientAccessError", errors |-> <<>>, name |-> variableName]
ResolverError(resolver) == [type |-> "ResolverError", errors |-> <<>>, name |-> resolver]
TypeError == [type |-> "TypeError", errors |-> <<>>, name |-> "Environment object is read-only"]
\* errors of no type of this library: the one the decode callback of
\* commaSeparatedNumbers throws, and one thrown by an onValidationError callback
DecodeError == [type |-> "Error", errors |-> <<>>, name |-> "not a valid number"]
ForeignError == [type |-> "Error", errors |-> <<>>, name |-> "boom"]

\* String(error) of the foreign error
ErrorToString(error) == error.type \o ": " \o error.name

-----------------------------------------------------------------------------
(* Validation/merge engine (env.ts) *)

\* keys of { ...a, ...b, ...c } in property order
SpreadOrder(a, b, c) ==
    SelectSeq(KeyOrder, LAMBDA k : k \in DOMAIN a)
    \o SelectSeq(KeyOrder, LAMBDA k : k \in DOMAIN b /\ k \notin DOMAIN a)
    \o SelectSeq(KeyOrder, LAMBDA k : k \in DOMAIN c /\ k \notin DOMAIN a \cup DOMAIN b)

\* { ...a, ...b, ...c }: later spreads override earlier ones
Spread(a, b, c) ==
    [k \in DOMAIN a \cup DOMAIN b \cup DOMAIN c |->
        IF k \in DOMAIN c THEN c[k] ELSE IF k \in DOMAIN b THEN b[k] ELSE a[k]]

EmptyDict == [k \in {} |-> requiredString]

normalizeRuntimeEnv(runtimeEnv, emptyStringAsUndefined) ==
    IF ~emptyStringAsUndefined THEN runtimeEnv
    ELSE [n \in DOMAIN runtimeEnv |-> IF runtimeEnv[n] = "" THEN Undefined ELSE runtimeEnv[n]]

RECURSIVE AddMetas(_, _, _)
AddMetas(agg, extendsEnvs, metaStore) ==
    IF extendsEnvs = <<>> THEN agg
    ELSE LET ext == Head(extendsEnvs) IN
         IF ext \notin DOMAIN metaStore
         THEN AddMetas(agg, Tail(extendsEnvs), metaStore)
         ELSE AddMetas([serverKeys |-> agg.serverKeys \cup metaStore[ext].serverKeys,
                        clientKeys |-> agg.clientKeys \cup metaStore[ext].clientKeys,
                        sharedKeys |-> agg.sharedKeys \cup metaStore[ext].sharedKeys],
                       Tail(extendsEnvs), metaStore)

\* mutant: only the keys the call declares, none inherited
aggregateOwnKeys(server, client, shared, extendsEnvs, metaStore) ==
    [serverKeys |-> DOMAIN server, clientKeys |-> DOMAIN client, sharedKeys |-> DOMAIN shared]

aggregateEnvKeys(server, client, shared, extendsEnvs, metaStore) ==
    AddMetas([serverKeys |-> DOMAIN server,
              clientKeys |-> DOMAIN client,
              sharedKeys |-> DOMAIN shared], extendsEnvs, metaStore)

\* mutant: the server schemas are selected on the client too
selectEverySchema(isServer, server, client, shared) ==
    [dict |-> Spread(server, client, shared), order |-> SpreadOrder(server, client, shared)]

selectSchemaForRuntime(isServer, server, client, shared) ==
    IF isServer
    THEN [dict |-> Spread(server, client, shared), order |-> SpreadOrder(server, client, shared)]
    ELSE [dict |-> Spread(EmptyDict, client, shared),
          order |-> SpreadOrder(EmptyDict, client, shared)]

getKeyCategory(key, client, shared) ==
    IF key \in DOMAIN client THEN "client"
    ELSE IF key \in DOMAIN shared THEN "shared"
    ELSE "server"

\* the name the key is looked up under: `${options.prefixMap[category]}${key}`
EnvKeyOf(key, client, shared, prefixMap) ==
    prefixMap[getKeyCategory(key, client, shared)] \o key

\* ParseResult.TreeFormatter.formatErrorSync(parsed.left)
ErrorLine(envKey) == envKey \o ": invalid"

NoAutoRedact == [enabled |-> FALSE, keys |-> {}]

\* options.autoRedactKeys?.has(envKey)
AutoRedactHas(autoRedactKeys, envKey) ==
    autoRedactKeys.enabled /\ envKey \in autoRedactKeys.keys

\* the loop of parseSchemaValues from position i; a decoder that throws
\* ends the loop with its exception
RECURSIVE ParseFrom(_, _, _, _)
ParseFrom(schema, i, options, acc) ==
    IF i > Len(schema.order) THEN acc
    ELSE LET key == schema.order[i]
             envKey == EnvKeyOf(key, options.client, options.shared, options.prefixMap)
             rawValue == Lookup(options.runtimeEnv, envKey)
             parsed == Decode(schema.dict[key], rawValue)
         IN  IF parsed.tag = "Throw"
             THEN [acc EXCEPT !.thrown = TRUE]
             ELSE IF parsed.tag = "Left"
             THEN ParseFrom(schema, i + 1, options,
                            [acc EXCEPT !.errors = Append(@, ErrorLine(envKey))])
             ELSE LET finalValue ==
                          IF AutoRedactHas(options.autoRedactKeys, envKey)
                             /\ ~IsRedacted(parsed.value)
                          THEN RedactedMake(parsed.value)
                          ELSE parsed.value
                  IN ParseFrom(schema, i + 1, options,
                               [acc EXCEPT !.values = (key :> finalValue) @@ @])

EmptyValues == [k \in {} |-> UndefVal]

parseSchemaValues(schema, options) ==
    ParseFrom(schema, 1, options, [values |-> EmptyValues, errors |-> <<>>, thrown |-> FALSE])

\* the error raiseValidationErrors throws, NoError when it returns
raiseValidationErrors(errors, onValidationError) ==
    IF errors = <<>> THEN NoError
    ELSE IF onValidationError = "throwsError"
    THEN EnvValidationError(<<ErrorToString(ForeignError)>>)
    ELSE IF onValidationError = "throwsEnvValidationError"
    THEN EnvValidationError(<<"custom">>)
    ELSE EnvValidationError(errors)

createClientBlockedKeys(aggregated) ==
    {key \in aggregated.serverKeys :
        key \notin aggregated.clientKeys /\ key \notin aggregated.sharedKeys}

\* the get trap of the proxy: the error it throws, NoError when it returns
GetTrapError(env, prop) ==
    IF ~env.isServer /\ prop \in env.clientBlockedKeys
    THEN ClientAccessError(prop)
    ELSE NoError

\* the get trap of the proxy: Reflect.get(target, prop)
GetTrapValue(env, prop) ==
    IF prop \in DOMAIN env.target THEN env.target[prop] ELSE UndefVal

\* Object.entries(ext) on a proxy lists the keys of the target and reads
\* each through the get trap, in property order
EntriesError(env) ==
    LET blockedHere == SelectSeq(KeyOrder,
            LAMBDA k : k \in DOMAIN env.target /\ GetTrapError(env, k) # NoError)
    IN  IF blockedHere = <<>> THEN NoError ELSE GetTrapError(env, Head(blockedHere))

RECURSIVE MergeFrom(_, _, _)
MergeFrom(extendsEnvs, store, mergedValues) ==
    IF extendsEnvs = <<>> THEN [error |-> NoError, values |-> mergedValues]
    ELSE LET ext == store[Head(extendsEnvs)] IN
         IF EntriesError(ext) # NoError
         THEN [error |-> EntriesError(ext), values |-> mergedValues]
         ELSE MergeFrom(Tail(extendsEnvs), store, ext.target @@ mergedValues)

\* mutant: the extended values win over the values parsed in this call
mergeExtendedOverParsed(extendsEnvs, parsedValues, store) ==
    LET fromExtends == MergeFrom(extendsEnvs, store, EmptyValues) IN
    IF fromExtends.error # NoError THEN fromExtends
    ELSE [error |-> NoError, values |-> fromExtends.values @@ parsedValues]

mergeExtendedEnvs(extendsEnvs, parsedValues, store) ==
    LET fromExtends == MergeFrom(extendsEnvs, store, EmptyValues) IN
    IF fromExtends.error # NoError THEN fromExtends
    ELSE [error |-> NoError, values |-> parsedValues @@ fromExtends.values]

createReadOnlyEnv(envValues, isServer, clientBlockedKeys) ==
    [target |-> envValues, isServer |-> isServer, clientBlockedKeys |-> clientBlockedKeys]

\* buildEnv: the exception it throws, or the proxy it returns with the
\* metadata it records
buildEnv(opts, autoRedactKeys, store, metaStore, ambientEnv) ==
    LET runtimeEnv == normalizeRuntimeEnv(
                          IF opts.runtimeEnv.given THEN opts.runtimeEnv.env ELSE ambientEnv,
                          opts.emptyStringAsUndefined)
        aggregated == aggregateEnvKeys(opts.server, opts.client, opts.shared,
                                       opts.extends, metaStore)
        prefixMap == resolvePrefixMap(opts.prefix)
        runtimeSchema == selectSchemaForRuntime(opts.isServer, opts.server,
                                                opts.client, opts.shared)
        parsed == parseSchemaValues(runtimeSchema,
                      [client |-> opts.client, shared |-> opts.shared,
                       runtimeEnv |-> runtimeEnv, prefixMap |-> prefixMap,
                       autoRedactKeys |-> autoRedactKeys])
        raised == raiseValidationErrors(parsed.errors, opts.onValidationError)
        merged == mergeExtendedEnvs(opts.extends, parsed.values, store)
    IN  IF parsed.thrown THEN [error |-> DecodeError]
        ELSE IF raised # NoError THEN [error |-> raised]
        ELSE IF merged.error # NoError THEN [error |-> merged.error]
        ELSE [error |-> NoError,
              env |-> createReadOnlyEnv(merged.values, opts.isServer,
                                        createClientBlockedKeys(aggregated)),
              meta |-> aggregated]

\* what the validation of a buildEnv call did: the schemas parseSchemaValues
\* decoded, a decoder that threw included, and the calls of onValidationError
NoValidation == [decoded |-> 0, callbackCalls |-> 0]

ValidationOf(opts, autoRedactKeys, ambientEnv) ==
    LET runtimeEnv == normalizeRuntimeEnv(
                          IF opts.runtimeEnv.given THEN opts.runtimeEnv.env ELSE ambientEnv,
                          opts.emptyStringAsUndefined)
        runtimeSchema == selectSchemaForRuntime(opts.isServer, opts.server,
                                                opts.client, opts.shared)
        parsed == parseSchemaValues(runtimeSchema,
                      [client |-> opts.client, shared |-> opts.shared,
                       runtimeEnv |-> runtimeEnv,
                       prefixMap |-> resolvePrefixMap(opts.prefix),
                       autoRedactKeys |-> autoRedactKeys])
    IN  [decoded |-> Len(parsed.errors) + Cardinality(DOMAIN parsed.values)
                        + IF parsed.thrown THEN 1 ELSE 0,
         callbackCalls |-> IF ~parsed.thrown /\ parsed.errors # <<>>
                              /\ opts.onValidationError # "undefined"
                           THEN 1 ELSE 0]

-----------------------------------------------------------------------------
(* Dotenv directive codec (cli/dotenv-codec.ts, cli/literals.ts) *)

\* a property that is not set
Absent == "$absent"

\* BUCKETS
BUCKETS == <<"server", "client", "shared">>
Buckets == {BUCKETS[i] : i \in 1..Len(BUCKETS)}

\* A text is a sequence of lines.  A line is blank, a comment that holds
\* directive tokens, an assignment with the directive tokens of its inline
\* comment, or anything else.  A token "@name value" keeps the name, the
\* first word of the value and, for "@type enum a,b", the comma-separated
\* rest as a list; enum values hold no comma and no blank.
Token(name, value, list) == [name |-> name, value |-> value, list |-> list]
BlankLine == [kind |-> "blank", tokens |-> <<>>, key |-> "", value |-> ""]
CommentLine(tokens) == [kind |-> "comment", tokens |-> tokens, key |-> "", value |-> ""]
AssignmentLine(key, value, tokens) ==
    [kind |-> "assignment", tokens |-> tokens, key |-> key, value |-> value]
MalformedLine == [kind |-> "malformed", tokens |-> <<>>, key |-> "", value |-> ""]

\* the directives of an entry
NoDirectives ==
    [type |-> Absent, optional |-> Absent, hasDefault |-> Absent, redacted |-> Absent,
     bucket |-> Absent, stringEnumValues |-> <<>>]

NoPrefix == [server |-> Absent, client |-> Absent, shared |-> Absent]

\* errors of the parser: the message, and the line number the message names
\* (NoLine when it names none)
NoLine == 0
NoParseError == [message |-> "", line |-> NoLine]
ParseError(message, line) == [message |-> message, line |-> line]

\* parseBooleanDirective(value, defaultValue)
parseBooleanDirective(value, defaultValue) ==
    IF value = "" THEN [error |-> NoParseError, value |-> defaultValue]
    ELSE IF value \in {"true", "TRUE"} THEN [error |-> NoParseError, value |-> "true"]
    ELSE IF value \in {"false", "FALSE"} THEN [error |-> NoParseError, value |-> "false"]
    ELSE [error |-> ParseError("Invalid boolean directive value", NoLine),
          value |-> defaultValue]

\* the alias map of parseSchemaKind, on the names the model writes
AliasMap ==
    [string |-> "requiredString", bool |-> "boolean", boolean |-> "boolean",
     int |-> "integer", integer |-> "integer", number |-> "number", port |-> "port",
     url |-> "url", json |-> "json"]

parseSchemaKind(rawValue, lineNumber) ==
    IF rawValue \in DOMAIN AliasMap
    THEN [error |-> NoParseError, kind |-> AliasMap[rawValue]]
    ELSE [error |-> ParseError("Invalid @type value", lineNumber), kind |-> Absent]

\* what a token sets; a field left Absent is not in the parsed object
NothingParsed ==
    [error |-> NoParseError, type |-> Absent, optional |-> Absent, hasDefault |-> Absent,
     redacted |-> Absent, bucket |-> Absent, stringEnumValues |-> <<>>,
     sectionBucket |-> Absent, sectionPrefix |-> Absent]

parseDirectiveToken(token, lineNumber) ==
    CASE token.name \in Buckets ->
            [NothingParsed EXCEPT !.sectionBucket = token.name,
                                  !.sectionPrefix = IF token.value # "" THEN token.value
                                                    ELSE Absent]
      [] token.name = "type" ->
            IF token.value = ""
            THEN [NothingParsed EXCEPT
                    !.error = ParseError("Directive @type requires a value", lineNumber)]
            ELSE IF token.value = "enum"
            THEN IF token.list = <<>>
                 THEN [NothingParsed EXCEPT
                         !.error = ParseError("Directive @type enum requires values",
                                              lineNumber)]
                 ELSE [NothingParsed EXCEPT !.type = "stringEnum",
                                            !.stringEnumValues = token.list]
            ELSE LET kind == parseSchemaKind(token.value, lineNumber) IN
                 [NothingParsed EXCEPT !.error = kind.error, !.type = kind.kind]
      [] token.name = "optional" ->
            LET b == parseBooleanDirective(token.value, "true") IN
            [NothingParsed EXCEPT !.error = b.error, !.optional = b.value]
      [] token.name = "no-default" -> [NothingParsed EXCEPT !.hasDefault = "false"]
      [] token.name = "redacted" ->
            LET b == parseBooleanDirective(token.value, "true") IN
            [NothingParsed EXCEPT !.error = b.error, !.redacted = b.value]
      [] token.name = "bucket" ->
            IF token.value = ""
            THEN [NothingParsed EXCEPT
                    !.error = ParseError("Directive @bucket requires a value", lineNumber)]
            ELSE IF token.value \notin Buckets
            THEN [NothingParsed EXCEPT !.error = ParseError("Invalid bucket", lineNumber)]
            ELSE [NothingParsed EXCEPT !.bucket = token.value]
      [] OTHER -> [NothingParsed EXCEPT !.error = ParseError("Unknown directive", lineNumber)]

\* the loop of parseDirectiveGroup: every token overwrites what it sets
RECURSIVE GroupFrom(_, _, _)
GroupFrom(tokens, lineNumber, acc) ==
    IF tokens = <<>> THEN acc
    ELSE With(parseDirectiveToken(Head(tokens), lineNumber), LAMBDA parsed :
         IF parsed.error # NoParseError THEN [acc EXCEPT !.error = parsed.error]
         ELSE With(
                [error |-> NoParseError,
                 directives |->
                    [type |-> IF parsed.type # Absent THEN parsed.type
                              ELSE acc.directives.type,
                     optional |-> IF parsed.optional # Absent THEN parsed.optional
                                  ELSE acc.directives.optional,
                     hasDefault |-> IF parsed.hasDefault # Absent THEN parsed.hasDefault
                                    ELSE acc.directives.hasDefault,
                     redacted |-> IF parsed.redacted # Absent THEN parsed.redacted
                                  ELSE acc.directives.redacted,
                     bucket |-> IF parsed.bucket # Absent THEN parsed.bucket
                                ELSE acc.directives.bucket,
                     stringEnumValues |-> IF parsed.stringEnumValues # <<>>
                                          THEN parsed.stringEnumValues
                                          ELSE acc.directives.stringEnumValues],
                 sectionBucket |-> IF parsed.sectionBucket # Absent
                                   THEN parsed.sectionBucket ELSE acc.sectionBucket,
                 sectionPrefix |-> IF parsed.sectionBucket # Absent
                                      /\ parsed.sectionPrefix # Absent
                                   THEN parsed.sectionPrefix ELSE acc.sectionPrefix],
                LAMBDA next : GroupFrom(Tail(tokens), lineNumber, next)))

parseDirectiveGroup(tokens, lineNumber, base) ==
    With([error |-> NoParseError, directives |-> base,
          sectionBucket |-> Absent, sectionPrefix |-> Absent],
         LAMBDA start : GroupFrom(tokens, lineNumber, start))

\* the values the documents of the model assign
DocValues == <<"1", "a b", "", "a#b">>

\* JSON.stringify of a string without quotes or backslashes
Quote(value) == "\"" \o value \o "\""

\* normalizeAssignedValue: a value written between quotes loses them
normalizeAssignedValue(value) ==
    LET inside == {v \in {DocValues[i] : i \in 1..Len(DocValues)} : Quote(v) = value} IN
    IF inside # {} THEN CHOOSE v \in inside : TRUE ELSE value

\* the loop of parseDotenvText over the lines, from line number i on
RECURSIVE ParseLinesFrom(_, _, _)
ParseLinesFrom(lines, i, acc) ==
    IF i > Len(lines) \/ acc.error # NoParseError THEN acc
    ELSE With(lines[i], LAMBDA line :
         CASE line.kind = "blank" -> ParseLinesFrom(lines, i + 1, acc)
           [] line.kind = "comment" ->
                IF line.tokens = <<>> THEN ParseLinesFrom(lines, i + 1, acc)
                ELSE With(parseDirectiveGroup(line.tokens, i, acc.pending), LAMBDA group :
                     IF group.error # NoParseError THEN [acc EXCEPT !.error = group.error]
                     ELSE IF group.sectionBucket # Absent
                     THEN With([acc EXCEPT
                                   !.activeBucket = group.sectionBucket,
                                   !.prefix = IF group.sectionPrefix # Absent
                                              THEN [@ EXCEPT ![group.sectionBucket] =
                                                                 group.sectionPrefix]
                                              ELSE @,
                                   !.pending = NoDirectives],
                               LAMBDA next : ParseLinesFrom(lines, i + 1, next))
                     ELSE With([acc EXCEPT !.pending = group.directives],
                               LAMBDA next : ParseLinesFrom(lines, i + 1, next)))
           [] line.kind = "assignment" ->
                With(parseDirectiveGroup(line.tokens, i, acc.pending), LAMBDA inline :
                IF inline.error # NoParseError THEN [acc EXCEPT !.error = inline.error]
                ELSE IF inline.sectionBucket # Absent
                THEN [acc EXCEPT !.error =
                        ParseError("Section directives are not allowed inline", i)]
                ELSE With([acc EXCEPT
                              !.entries = Append(@,
                                  [key |-> line.key,
                                   value |-> normalizeAssignedValue(line.value),
                                   line |-> i,
                                   sectionBucket |-> acc.activeBucket,
                                   directives |-> inline.directives]),
                              !.pending = NoDirectives],
                          LAMBDA next : ParseLinesFrom(lines, i + 1, next)))
           [] OTHER -> [acc EXCEPT !.error = ParseError("Malformed assignment", i)])

\* parseDotenvText: the document, or the error thrown
parseDotenvText(lines) ==
    With(ParseLinesFrom(lines, 1,
                        [error |-> NoParseError, entries |-> <<>>, prefix |-> NoPrefix,
                         activeBucket |-> Absent, pending |-> NoDirectives]),
         LAMBDA parsed :
            [error |-> parsed.error,
             document |->
                [entries |-> parsed.entries,
                 prefix |-> IF \E b \in Buckets : parsed.prefix[b] \notin {Absent, ""}
                            THEN parsed.prefix ELSE NoPrefix]])

\* the keys the documents of the model assign
DocKeys == <<"A", "B", "C", "D">>

\* the characters of the names of the model, in collation order and in
\* code-unit order
CollationOrder == "_0123456789ABCDEFGHIJKLMNOPQRSTUVWXYZabcdefghijklmnopqrstuvwxyz"
CodeUnitOrder == "0123456789ABCDEFGHIJKLMNOPQRSTUVWXYZ_abcdefghijklmnopqrstuvwxyz"

CharRank(c, order) == CHOOSE i \in 1..Len(order) : SubSeq(order, i, i) = c

\* comparison of two strings character by character: -1, 0 or 1
RECURSIVE CompareFrom(_, _, _, _)
CompareFrom(left, right, i, order) ==
    IF i > Len(left) /\ i > Len(right) THEN 0
    ELSE IF i > Len(left) THEN -1
    ELSE IF i > Len(right) THEN 1
    ELSE LET l == CharRank(SubSeq(left, i, i), order)
             r == CharRank(SubSeq(right, i, i), order)
         IN  IF l < r THEN -1 ELSE IF l > r THEN 1
             ELSE CompareFrom(left, right, i + 1, order)

\* left.localeCompare(right), on names of one letter case
localeCompare(left, right) == CompareFrom(left, right, 1, CollationOrder)

\* the comparator of the sort: by line, then by key
SortsBefore(left, right) ==
    \/ left.line < right.line
    \/ left.line = right.line /\ localeCompare(left.key, right.key) < 0

\* [...document.entries].sort(...)
RECURSIVE SortEntries(_)
SortEntries(entries) ==
    IF entries = <<>> THEN <<>>
    ELSE LET firsts == {i \in 1..Len(entries) :
                           \A j \in 1..Len(entries) : ~SortsBefore(entries[j], entries[i])}
             first == CHOOSE i \in firsts : \A j \in firsts : i <= j
         IN  <<entries[first]>>
             \o SortEntries([k \in 1..(Len(entries) - 1) |->
                                IF k < first THEN entries[k] ELSE entries[k + 1]])

\* the bucket an entry is grouped under
GroupOf(entry) ==
    IF entry.directives.bucket # Absent THEN entry.directives.bucket
    ELSE IF entry.sectionBucket # Absent THEN entry.sectionBucket
    ELSE "server"

\* /[\s#]/.test(literal), on the values of the model
NeedsQuotes(value) == value \in {"a b", "a#b"}

\* serializeEnvValue: a value with white space or # is written between quotes
serializeEnvValue(value) ==
    IF value = "" THEN "" ELSE IF NeedsQuotes(value) THEN Quote(value) ELSE value

\* mutant: the redacted directive is not written
EntryLinesWithoutRedacted(entry) ==
    (IF entry.directives.type = "stringEnum" /\ entry.directives.stringEnumValues # <<>>
     THEN <<CommentLine(<<Token("type", "enum", entry.directives.stringEnumValues)>>)>>
     ELSE <<>>)
    \o (IF entry.directives.optional = "true"
        THEN <<CommentLine(<<Token("optional", "", <<>>)>>)>> ELSE <<>>)
    \o (IF entry.directives.hasDefault = "false"
        THEN <<CommentLine(<<Token("no-default", "", <<>>)>>)>> ELSE <<>>)
    \o <<AssignmentLine(entry.key, serializeEnvValue(entry.value), <<>>), BlankLine>>

\* the lines written for one entry
EntryLines(entry) ==
    (IF entry.directives.type = "stringEnum" /\ entry.directives.stringEnumValues # <<>>
     THEN <<CommentLine(<<Token("type", "enum", entry.directives.stringEnumValues)>>)>>
     ELSE <<>>)
    \o (IF entry.directives.optional = "true"
        THEN <<CommentLine(<<Token("optional", "", <<>>)>>)>> ELSE <<>>)
    \o (IF entry.directives.hasDefault = "false"
        THEN <<CommentLine(<<Token("no-default", "", <<>>)>>)>> ELSE <<>>)
    \o (IF entry.directives.redacted = "true"
        THEN <<CommentLine(<<Token("redacted", "", <<>>)>>)>> ELSE <<>>)
    \o <<AssignmentLine(entry.key, serializeEnvValue(entry.value), <<>>), BlankLine>>

RECURSIVE LinesOfEntries(_)
LinesOfEntries(entries) ==
    IF entries = <<>> THEN <<>>
    ELSE EntryLines(Head(entries)) \o LinesOfEntries(Tail(entries))

\* the header of a bucket and the entries grouped under it
BucketLines(document, sortedEntries, bucket) ==
    LET pfx == document.prefix[bucket] IN
    <<CommentLine(<<Token(bucket, IF pfx \notin {Absent, ""} THEN pfx ELSE "", <<>>)>>),
      BlankLine>>
    \o LinesOfEntries(SelectSeq(sortedEntries, LAMBDA entry : GroupOf(entry) = bucket))

\* lines.pop() while the last line is empty
RECURSIVE TrimBlankEnd(_)
TrimBlankEnd(lines) ==
    IF lines # <<>> /\ lines[Len(lines)] = BlankLine
    THEN TrimBlankEnd(SubSeq(lines, 1, Len(lines) - 1))
    ELSE lines

\* stringifyDotenvDocument: the lines of the text, before the final newline
stringifyDotenvDocument(document) ==
    LET sortedEntries == SortEntries(document.entries) IN
    TrimBlankEnd(BucketLines(document, sortedEntries, BUCKETS[1])
                 \o BucketLines(document, sortedEntries, BUCKETS[2])
                 \o BucketLines(document, sortedEntries, BUCKETS[3]))

-----------------------------------------------------------------------------
(* Type inference of the CLI (cli/infer.ts) *)

\* key.startsWith(prefix) and key.slice(n)
StartsWith(key, prefix) ==
    Len(prefix) <= Len(key) /\ SubSeq(key, 1, Len(prefix)) = prefix
Slice(key, n) == SubSeq(key, n + 1, Len(key))

\* key.includes(part)
Includes(key, part) ==
    \E i \in 1..Len(key) :
        i + Len(part) - 1 <= Len(key) /\ SubSeq(key, i, i + Len(part) - 1) = part

\* decoded numbers and booleans: s holds String(value)
NumVal(s) == [t |-> "number", s |-> s, red |-> 0]
BoolVal(s) == [t |-> "boolean", s |-> s, red |-> 0]

\* The values of the model hold no brace, bracket, comma or "://", so that
\* the JSON, URL and list branches of inferSchemaKind are never taken.
\* /^[+-]?\d+$/ and /^[+-]?(?:\d+\.?\d*|\.\d+)$/ on the values of the model
IntegerStrings == {"0", "1", "2", "123", "3000", "70000"}
isBooleanString(value) == value \in {"true", "false", "1", "0"}
isIntegerString(value) == value \in IntegerStrings
isNumberString(value) == value \in IntegerStrings \cup {"2.0", "3.14"}

\* String(Number(value)) of a numeric string: the shortest decimal form
NumberString(value) == IF value = "2.0" THEN "2" ELSE value

\* Number(value), as String writes it
NumberOf(value) ==
    IF value = "" THEN "0"
    ELSE IF isNumberString(value) THEN NumberString(value)
    ELSE "NaN"

\* Math.trunc(numeric), as String writes it
Trunc(numeric) == IF numeric = "3.14" THEN "3" ELSE numeric

\* numeric >= 1 && numeric <= 65535, on the integers of the model
InPortRange(numeric) == numeric \in {"1", "2", "3", "123", "3000"}

inferSchemaKind(key, rawValue) ==
    IF isBooleanString(rawValue) THEN "boolean"
    ELSE IF isIntegerString(rawValue)
    THEN IF Includes(key, "PORT") /\ InPortRange(NumberOf(rawValue))
         THEN "port" ELSE "integer"
    ELSE IF isNumberString(rawValue) THEN "number"
    ELSE "requiredString"

normalizeDefaultValue(kind, value) ==
    CASE kind = "boolean" -> BoolVal(IF value \in {"true", "1"} THEN "true" ELSE "false")
      [] kind = "integer" ->
            IF NumberOf(value) = "NaN" THEN NumVal("0") ELSE NumVal(Trunc(NumberOf(value)))
      [] kind = "number" ->
            IF NumberOf(value) = "NaN" THEN NumVal("0") ELSE NumVal(NumberOf(value))
      [] kind = "port" ->
            IF NumberOf(value) # "NaN" /\ InPortRange(Trunc(NumberOf(value)))
            THEN NumVal(Trunc(NumberOf(value))) ELSE NumVal("3000")
      [] kind = "stringEnum" -> StrVal(value)
      [] OTHER -> StrVal(IF value = "" THEN "value" ELSE value)

stripPrefix(key, prefix) ==
    IF prefix = "" \/ ~StartsWith(key, prefix) THEN key
    ELSE IF Slice(key, Len(prefix)) # "" THEN Slice(key, Len(prefix)) ELSE key

\* the candidates of inferBucketFromPrefix, in the order they are listed
CandidateOrder == <<"client", "server", "shared">>

\* mutant: the first matching candidate wins
inferBucketFromFirstPrefix(runtimeKey, prefix) ==
    LET matching == SelectSeq(CandidateOrder,
                        LAMBDA b : prefix[b] # "" /\ StartsWith(runtimeKey, prefix[b]))
    IN  IF matching = <<>> THEN [found |-> FALSE, bucket |-> Absent, schemaKey |-> runtimeKey]
        ELSE [found |-> TRUE, bucket |-> matching[1],
              schemaKey |-> stripPrefix(runtimeKey, prefix[matching[1]])]

\* inferBucketFromPrefix: the stable sort by prefix length, longest first,
\* leaves in front the first candidate no other candidate is longer than
inferBucketFromPrefix(runtimeKey, prefix) ==
    LET matching == SelectSeq(CandidateOrder,
                        LAMBDA b : prefix[b] # "" /\ StartsWith(runtimeKey, prefix[b]))
        longest == {i \in 1..Len(matching) :
                       \A j \in 1..Len(matching) :
                           Len(prefix[matching[j]]) <= Len(prefix[matching[i]])}
        best == matching[CHOOSE i \in longest : \A j \in longest : i <= j]
    IN  IF matching = <<>> THEN [found |-> FALSE, bucket |-> Absent, schemaKey |-> runtimeKey]
        ELSE [found |-> TRUE, bucket |-> best,
              schemaKey |-> stripPrefix(runtimeKey, prefix[best])]

\* mutant: the section bucket goes before the bucket directive
resolveSectionFirst(runtimeKey, prefix, explicitBucket, sectionBucket) ==
    LET chosen == IF sectionBucket # Absent THEN sectionBucket ELSE explicitBucket
        inferredFromPrefix == inferBucketFromPrefix(runtimeKey, prefix)
    IN  IF chosen # Absent
        THEN [bucket |-> chosen, schemaKey |-> stripPrefix(runtimeKey, prefix[chosen])]
        ELSE IF inferredFromPrefix.found
        THEN [bucket |-> inferredFromPrefix.bucket,
              schemaKey |-> inferredFromPrefix.schemaKey]
        ELSE [bucket |-> "server", schemaKey |-> runtimeKey]

resolveBucketAndSchemaKey(runtimeKey, prefix, explicitBucket, sectionBucket) ==
    LET chosen == IF explicitBucket # Absent THEN explicitBucket ELSE sectionBucket
        inferredFromPrefix == inferBucketFromPrefix(runtimeKey, prefix)
    IN  IF chosen # Absent
        THEN [bucket |-> chosen, schemaKey |-> stripPrefix(runtimeKey, prefix[chosen])]
        ELSE IF inferredFromPrefix.found
        THEN [bucket |-> inferredFromPrefix.bucket,
              schemaKey |-> inferredFromPrefix.schemaKey]
        ELSE [bucket |-> "server", schemaKey |-> runtimeKey]

\* errors of the inference: the message with the key, the bucket and the
\* line it names
NoInferError == [message |-> "", key |-> "", bucket |-> "", line |-> NoLine]
DuplicateError(schemaKey, bucket, line) ==
    [message |-> "Duplicate schema key", key |-> schemaKey, bucket |-> bucket,
     line |-> line]

\* mutant: a repeated pair is pushed like any other
IsDuplicateNever(variables, bucket, schemaKey) == FALSE

\* inferredVariables.find(...) of the duplicate check
IsDuplicate(variables, bucket, schemaKey) ==
    \E i \in 1..Len(variables) :
        variables[i].bucket = bucket /\ variables[i].schemaKey = schemaKey

\* the variable inferModel pushes for an entry
InferredVariable(entry, prefix) ==
    LET resolved == resolveBucketAndSchemaKey(entry.key, prefix, entry.directives.bucket,
                                              entry.sectionBucket)
        resolvedKind == IF entry.directives.type # Absent THEN entry.directives.type
                        ELSE inferSchemaKind(entry.key, entry.value)
        hasValue == entry.value # ""
        hasDefault == IF entry.directives.hasDefault = "false" THEN FALSE ELSE hasValue
    IN  [schemaKey |-> resolved.schemaKey,
         runtimeKey |-> entry.key,
         bucket |-> resolved.bucket,
         kind |-> resolvedKind,
         optional |-> entry.directives.optional = "true",
         hasDefault |-> hasDefault,
         defaultValue |-> IF hasDefault THEN normalizeDefaultValue(resolvedKind, entry.value)
                          ELSE UndefVal,
         redacted |-> entry.directives.redacted = "true",
         sourceLine |-> entry.line,
         stringEnumValues |-> entry.directives.stringEnumValues]

\* the loop of inferModel over the entries
RECURSIVE InferFrom(_, _, _)
InferFrom(entries, prefix, acc) ==
    IF entries = <<>> \/ acc.error # NoInferError THEN acc
    ELSE LET variable == InferredVariable(Head(entries), prefix) IN
         IF IsDuplicate(acc.variables, variable.bucket, variable.schemaKey)
         THEN [acc EXCEPT !.error = DuplicateError(variable.schemaKey, variable.bucket,
                                                   Head(entries).line)]
         ELSE InferFrom(Tail(entries), prefix,
                        [acc EXCEPT !.variables = Append(@, variable)])

\* BUCKET_ORDER
BucketOrder(bucket) == CHOOSE i \in 1..Len(BUCKETS) : BUCKETS[i] = bucket

\* the comparator of inferredVariables.sort
VariableBefore(left, right) ==
    \/ BucketOrder(left.bucket) < BucketOrder(right.bucket)
    \/ left.bucket = right.bucket /\ localeCompare(left.schemaKey, right.schemaKey) < 0

\* inferredVariables.sort(...): a stable sort
RECURSIVE SortVariables(_)
SortVariables(variables) ==
    IF variables = <<>> THEN <<>>
    ELSE LET firsts == {i \in 1..Len(variables) :
                           \A j \in 1..Len(variables) :
                               ~VariableBefore(variables[j], variables[i])}
             first == CHOOSE i \in firsts : \A j \in firsts : i <= j
         IN  <<variables[first]>>
             \o SortVariables([k \in 1..(Len(variables) - 1) |->
                                  IF k < first THEN variables[k] ELSE variables[k + 1]])

\* runtimeEnv[entry.key] = entry.value: the last entry of a key stays
RuntimeEnvOf(entries) ==
    [key \in {entries[i].key : i \in 1..Len(entries)} |->
        LET last_i == CHOOSE i \in 1..Len(entries) :
                          /\ entries[i].key = key
                          /\ \A j \in (i + 1)..Len(entries) : entries[j].key # key
        IN  entries[last_i].value]

\* inferModel(document, { prefix }): the model, or the error thrown
inferModel(document, prefix) ==
    LET inferred == InferFrom(document.entries, prefix,
                              [error |-> NoInferError, variables |-> <<>>])
    IN  [error |-> inferred.error,
         model |-> [prefix |-> prefix,
                    variables |-> IF inferred.error = NoInferError
                                  THEN SortVariables(inferred.variables) ELSE <<>>,
                    runtimeEnv |-> RuntimeEnvOf(document.entries)]]

-----------------------------------------------------------------------------
(* Schema source generator (cli/generate-env-ts.ts, cli/literals.ts) *)

\* parts.join(separator)
RECURSIVE Join(_, _)
Join(parts, separator) ==
    IF parts = <<>> THEN ""
    ELSE IF Len(parts) = 1 THEN parts[1]
    ELSE parts[1] \o separator \o Join(Tail(parts), separator)

\* [...names].sort(): by code units
RECURSIVE SortNames(_)
SortNames(names) ==
    IF names = {} THEN <<>>
    ELSE LET first == CHOOSE n \in names :
                          \A m \in names : CompareFrom(n, m, 1, CodeUnitOrder) <= 0
         IN  <<first>> \o SortNames(names \ {first})

\* toCodeLiteral(value)
toCodeLiteral(value) ==
    IF value.t = "string" THEN Quote(value.s)
    ELSE IF value.t \in {"number", "boolean"} THEN value.s
    ELSE "undefined"

\* /^[A-Za-z_$][A-Za-z0-9_$]*$/.test(value)
IsIdentifier(value) ==
    /\ value # ""
    /\ ~Includes("0123456789", SubSeq(value, 1, 1))
    /\ \A i \in 1..Len(value) : Includes(CollationOrder, SubSeq(value, i, i))

quoteObjectKey(value) == IF IsIdentifier(value) THEN value ELSE Quote(value)

\* the base expression of a kind, with SPECIAL_EXPRESSIONS
BaseExpression(variable) ==
    IF variable.kind = "stringEnum" /\ variable.stringEnumValues # <<>>
    THEN "stringEnum(["
         \o Join([i \in 1..Len(variable.stringEnumValues) |->
                     Quote(variable.stringEnumValues[i])], ", ")
         \o "])"
    ELSE IF variable.kind = "stringEnum" THEN "stringEnum([])"
    ELSE IF variable.kind = "json" THEN "json(Schema.Unknown)"
    ELSE variable.kind

renderSchemaExpression(variable) ==
    LET base == BaseExpression(variable)
        wrapped == IF variable.optional /\ ~variable.hasDefault
                   THEN "optional(" \o base \o ")" ELSE base
        defaulted == IF variable.hasDefault
                     THEN "withDefault(" \o wrapped \o ", "
                          \o toCodeLiteral(variable.defaultValue) \o ")"
                     ELSE wrapped
    IN  [expression |-> IF variable.redacted THEN "redacted(" \o defaulted \o ")"
                        ELSE defaulted,
         helpers |-> {variable.kind}
                     \cup (IF variable.optional /\ ~variable.hasDefault
                           THEN {"optional"} ELSE {})
                     \cup (IF variable.hasDefault THEN {"withDefault"} ELSE {})
                     \cup (IF variable.redacted THEN {"redacted"} ELSE {})]

\* the comparator of the sort of generateEnvTs: bucket names, then keys
RenderedBefore(left, right) ==
    \/ localeCompare(left.bucket, right.bucket) < 0
    \/ left.bucket = right.bucket /\ localeCompare(left.schemaKey, right.schemaKey) < 0

\* [...model.variables].sort(...): a stable sort
RECURSIVE SortRendered(_)
SortRendered(variables) ==
    IF variables = <<>> THEN <<>>
    ELSE LET firsts == {i \in 1..Len(variables) :
                           \A j \in 1..Len(variables) :
                               ~RenderedBefore(variables[j], variables[i])}
             first == CHOOSE i \in firsts : \A j \in firsts : i <= j
         IN  <<variables[first]>>
             \o SortRendered([k \in 1..(Len(variables) - 1) |->
                                 IF k < first THEN variables[k] ELSE variables[k + 1]])

\* renderBucketEntries(grouped[bucket])
renderBucketEntries(sortedVariables, bucket) ==
    LET grouped == SelectSeq(sortedVariables, LAMBDA v : v.bucket = bucket) IN
    [i \in 1..Len(grouped) |->
        "    " \o quoteObjectKey(grouped[i].schemaKey) \o ": "
        \o renderSchemaExpression(grouped[i]).expression \o ","]

\* sourceLines.filter(...): a blank line after a blank line is dropped
RECURSIVE DropRepeatedBlanks(_, _)
DropRepeatedBlanks(lines, previous) ==
    IF lines = <<>> THEN <<>>
    ELSE IF Head(lines) = "" /\ previous = "" THEN DropRepeatedBlanks(Tail(lines), "")
    ELSE <<Head(lines)>> \o DropRepeatedBlanks(Tail(lines), Head(lines))

\* generateEnvTs(model): the lines of the source, joined by newlines
generateEnvTs(model) ==
    LET sortedVariables == SortRendered(model.variables)
        helperImports ==
            {"createEnv"}
            \cup UNION {renderSchemaExpression(sortedVariables[i]).helpers :
                          i \in 1..Len(sortedVariables)}
        needsSchemaImport == \E i \in 1..Len(sortedVariables) :
                                 sortedVariables[i].kind = "json"
        sourceLines ==
            <<"import { " \o Join(SortNames(helperImports), ", ")
              \o " } from \"@ayronforge/envil\";",
              IF needsSchemaImport THEN "import { Schema } from \"effect\";" ELSE "",
              "",
              "export const envDefinition = {",
              "  prefix: {",
              "    server: " \o Quote(model.prefix.server) \o ",",
              "    client: " \o Quote(model.prefix.client) \o ",",
              "    shared: " \o Quote(model.prefix.shared) \o ",",
              "  },",
              "  server: {">>
            \o renderBucketEntries(sortedVariables, "server")
            \o <<"  },", "  client: {">>
            \o renderBucketEntries(sortedVariables, "client")
            \o <<"  },", "  shared: {">>
            \o renderBucketEntries(sortedVariables, "shared")
            \o <<"  },", "} as const;", "", "export const env = createEnv(envDefinition);", "">>
    IN  Join(DropRepeatedBlanks(sourceLines, "x"), "\n")

-----------------------------------------------------------------------------
(* Example builder (introspect.ts) *)

\* the schemas of the kinds the CLI infers, with their annotations
boolean == [kind |-> "boolean"]
integer == [kind |-> "integer"]
number == [kind |-> "number"]
port == [kind |-> "port"]
stringEnum(values) == [kind |-> "stringEnum", values |-> values]

\* PLACEHOLDER_ANNOTATION of a schema
PlaceholderOf(schema) ==
    CASE schema.kind = "requiredString" -> "CHANGE_ME"
      [] schema.kind = "boolean" -> "true"
      [] schema.kind = "integer" -> "123"
      [] schema.kind = "number" -> "3.14"
      [] schema.kind = "port" -> "3000"
      [] schema.kind = "stringEnum" -> schema.values[1]
      [] OTHER -> Absent

\* SCHEMA_KIND_ANNOTATION of a schema
KindOf(schema) ==
    IF schema.kind \in {"requiredString", "boolean", "integer", "number", "port",
                        "stringEnum", "commaSeparatedNumbers"}
    THEN schema.kind ELSE Absent

\* baseSchema, variableToSchema and modelToDefinition: the definition the
\* generated source evaluates to
baseSchema(kind, enumValues) ==
    CASE kind = "boolean" -> boolean
      [] kind = "integer" -> integer
      [] kind = "number" -> number
      [] kind = "port" -> port
      [] kind = "stringEnum" -> stringEnum(enumValues)
      [] OTHER -> requiredString

variableToSchema(v) ==
    LET base == baseSchema(v.kind, v.stringEnumValues)
        optioned == IF v.optional /\ ~v.hasDefault THEN optional(base) ELSE base
        defaulted == IF v.hasDefault THEN withDefault(optioned, v.defaultValue) ELSE optioned
    IN  IF v.redacted THEN redacted(defaulted) ELSE defaulted

modelToDefinition(model) ==
    [prefix |-> model.prefix,
     schemas |->
        [bucket \in Buckets |->
            LET own == SelectSeq(model.variables, LAMBDA v : v.bucket = bucket) IN
            [key \in {own[i].schemaKey : i \in 1..Len(own)} |->
                LET last_i == CHOOSE i \in 1..Len(own) :
                                  /\ own[i].schemaKey = key
                                  /\ \A j \in (i + 1)..Len(own) : own[j].schemaKey # key
                IN  variableToSchema(own[last_i])]]]

\* examineSchema: the redacted, default and optional layers are peeled in
\* this order, then the annotations of what is left are read
examineSchema(schema) ==
    LET isRedacted == schema.kind = "redacted"
        unredacted == IF isRedacted THEN schema.inner ELSE schema
        hasDefault == unredacted.kind = "withDefault" /\ unredacted.d # UndefVal
        undefaulted == IF hasDefault THEN unredacted.inner ELSE unredacted
        isOptional == undefaulted.kind = "optional"
        ast == IF isOptional THEN undefaulted.inner ELSE undefaulted
    IN  [kind |-> KindOf(ast),
         placeholder |-> PlaceholderOf(ast),
         optional |-> isOptional,
         hasDefault |-> hasDefault,
         defaultValue |-> IF hasDefault THEN unredacted.d ELSE UndefVal,
         redacted |-> isRedacted,
         stringEnumValues |-> IF KindOf(ast) = "stringEnum" THEN ast.values ELSE <<>>]

\* encodeDefault: the default, encoded by the schema or, when encoding
\* throws, written by stringifyDefault; both give String(value) for the
\* strings, numbers and booleans of the model
encodeDefault(examined) == examined.defaultValue.s

\* the entry buildEnvExample pushes for a key of a bucket
ExampleEntry(definition, bucket, key, line) ==
    LET examined == examineSchema(definition.schemas[bucket][key]) IN
    [key |-> definition.prefix[bucket] \o key,
     value |-> IF examined.hasDefault THEN encodeDefault(examined)
               ELSE IF examined.placeholder # Absent THEN examined.placeholder
               ELSE "CHANGE_ME",
     line |-> line,
     sectionBucket |-> bucket,
     directives |->
        [type |-> examined.kind,
         optional |-> IF examined.optional THEN "true" ELSE "false",
         hasDefault |-> IF examined.hasDefault THEN "true" ELSE "false",
         redacted |-> IF examined.redacted THEN "true" ELSE "false",
         bucket |-> bucket,
         stringEnumValues |-> examined.stringEnumValues]]

\* the loops of buildEnvExample over the buckets and their sorted keys
RECURSIVE ExampleEntriesFrom(_, _, _)
ExampleEntriesFrom(definition, b, entries) ==
    IF b > Len(BUCKETS) THEN entries
    ELSE LET keys == SortNames(DOMAIN definition.schemas[BUCKETS[b]])
             own == [i \in 1..Len(keys) |->
                        ExampleEntry(definition, BUCKETS[b], keys[i], Len(entries) + i)]
         IN  ExampleEntriesFrom(definition, b + 1, entries \o own)

\* buildEnvExample(definition): the lines of the text
buildEnvExample(definition) ==
    LET hasPrefix == \E b \in Buckets : definition.prefix[b] # "" IN
    stringifyDotenvDocument(
        [entries |-> ExampleEntriesFrom(definition, 1, <<>>),
         prefix |-> IF hasPrefix THEN definition.prefix ELSE NoPrefix])

-----------------------------------------------------------------------------
(* Remote secrets resolver (resolvers/remote.ts, resolvers/utils.ts) *)

\* const { strict = false } = opts
StrictOf(opts) == opts.strict = "true"

\* entries.map(([, id]) => id), in the order of Object.entries(secrets)
SecretIdsOf(opts) == [i \in 1..Len(opts.secrets) |-> opts.secrets[i].secretId]

\* mutant: the batch operation whenever the client provides it
UsesBatchWhenProvided(opts) == opts.client.getSecrets

\* client.getSecrets && secretIds.length > 1
UsesBatch(opts) == opts.client.getSecrets /\ Len(SecretIdsOf(opts)) > 1

\* a promise that resolved with a value, and one that rejected
Fulfilled(value) == [ok |-> TRUE, value |-> value]
Rejected == [ok |-> FALSE, value |-> Undefined]

\* strictOrElse: a failure becomes a ResolverError when strict, and the
\* fallback otherwise
strictOrElse(settled, options) ==
    IF settled.ok THEN [ok |-> TRUE, value |-> settled.value, error |-> NoError]
    ELSE IF options.strict
    THEN [ok |-> FALSE, value |-> Undefined, error |-> ResolverError(options.resolver)]
    ELSE [ok |-> TRUE, value |-> options.fallback, error |-> NoError]

\* map.set(key, value) for every pair in turn: a later pair overwrites
RECURSIVE SetAll(_, _)
SetAll(map, pairs) ==
    IF pairs = <<>> THEN map
    ELSE SetAll((Head(pairs)[1] :> Head(pairs)[2]) @@ map, Tail(pairs))

\* new Map(), and the empty record
EmptyMap == [id \in {} |-> Undefined]

\* fillMissingMapValues: every requested ID the map lacks is set to undefined
fillMissingMapValues(ids, values) ==
    [id \in DOMAIN values \cup {ids[i] : i \in 1..Len(ids)} |->
        IF id \in DOMAIN values THEN values[id] ELSE Undefined]

\* keyValueResultsToRecord: result[envKey] = value for every entry in turn
keyValueResultsToRecord(values) ==
    SetAll(EmptyMap, [i \in 1..Len(values) |-> <<values[i].envKey, values[i].value>>])

\* the record returned: every env key with secretValues.get(secretId)
RemoteRecord(opts, secretValues) ==
    keyValueResultsToRecord(
        [i \in 1..Len(opts.secrets) |->
            [envKey |-> opts.secrets[i].envKey,
             value |-> Lookup(secretValues, opts.secrets[i].secretId)]])

\* the map filled from the results of Effect.forEach, in the order of secretIds
ValuesOfResults(ids, fetches) ==
    SetAll(EmptyMap, [i \in 1..Len(ids) |-> <<ids[i], fetches[i].value>>])

\* the map filled from the batch result, completed with the missing IDs
ValuesOfBatch(ids, batchResult) ==
    fillMissingMapValues(ids, SetAll(EmptyMap,
        [i \in 1..Len(batchResult) |-> <<batchResult[i][1], batchResult[i][2]>>]))

-----------------------------------------------------------------------------
(* Inputs of the calls *)

\* all dictionaries from a subset of keys to the schemas of a set
Dicts(keys, schemas) == UNION {[d -> schemas] : d \in SUBSET keys}

\* all sequences over S of length at most n
SeqsUpTo(S, n) == UNION {[1..m -> S] : m \in 0..n}

\* opts.runtimeEnv
RuntimeEnvUndefined == [given |-> FALSE]
RuntimeEnvGiven(env) == [given |-> TRUE, env |-> env]

Callbacks == {"undefined", "returns", "throwsError", "throwsEnvValidationError"}

Options(serverDicts, clientDicts, sharedDicts, extendsLists, prefixes, callbacks) ==
    {[server |-> sv, client |-> cl, shared |-> sh, extends |-> ex,
      prefix |-> px, runtimeEnv |-> RuntimeEnvUndefined, isServer |-> is,
      emptyStringAsUndefined |-> FALSE, onValidationError |-> cb] :
        sv \in serverDicts, cl \in clientDicts, sh \in sharedDicts,
        ex \in extendsLists, px \in prefixes, is \in BOOLEAN, cb \in callbacks}

\* environments that extend one another: every key can be declared in two
\* buckets, every variable is either set or missing
ChainOpts ==
    Options(Dicts(Keys, {requiredString}), Dicts({"A"}, {requiredString}),
            Dicts({"B"}, {requiredString}), SeqsUpTo(1..Len(envs), MaxExtends),
            {PrefixUndefined}, {"undefined"})

\* environments whose proxies are written to
ReadOnlyOpts ==
    Options(Dicts(Keys, {requiredString}), {EmptyDict}, {EmptyDict},
            SeqsUpTo(1..Len(envs), MaxExtends), {PrefixUndefined}, {"undefined"})

ChainEnvs == {[k \in Keys |-> "1"], [k \in Keys |-> IF k = "A" THEN "x" ELSE Undefined]}

\* the raw environments of calls that extend one another: they disagree on A,
\* and the second has no B
MergeEnvs == {[k \in Keys |-> "1"], [k \in Keys |-> IF k = "A" THEN "2" ELSE Undefined]}

\* server-side calls with an explicit runtimeEnv, extending up to
\* MaxMergeExtends of the environments created before
MergeOpts ==
    {[server |-> sv, client |-> EmptyDict, shared |-> EmptyDict, extends |-> ex,
      prefix |-> PrefixUndefined, runtimeEnv |-> RuntimeEnvGiven(env), isServer |-> TRUE,
      emptyStringAsUndefined |-> FALSE, onValidationError |-> "undefined"] :
        sv \in Dicts(Keys, {requiredString}),
        ex \in SeqsUpTo(1..Len(envs), MaxMergeExtends), env \in MergeEnvs}

\* validation: decoders that fail and decoders that throw, every callback
ValidateOpts ==
    Options(Dicts(Keys, {requiredString, commaSeparatedNumbers}),
            Dicts({"A"}, {requiredString}), {EmptyDict}, {<<>>},
            {PrefixUndefined}, Callbacks)

ValidateEnvs == [Keys -> {Undefined, "1", "x"}]

\* createEnv effects: the variable A is looked up under its own name or
\* under the prefix, resolvers supply either name, B comes from the base
\* environment only
ResolverNames == {"A", "P_A"}

AllNames == {"A", "B", "P_A", "P_B"}

\* the value resolver i supplies
ResolverValue(i) == <<"r1", "r2", "r3">>[i]

\* the results resolver i can succeed with: a supplied name is defined or
\* undefined
ResolverResults(i) ==
    UNION {[d -> {ResolverValue(i), Undefined}] : d \in SUBSET ResolverNames}

ResolverSchemas == {requiredString, redacted(requiredString),
                    withDefault(requiredString, StrVal("d"))}

ResolverOpts ==
    {[server |-> a @@ b, client |-> EmptyDict, shared |-> EmptyDict, extends |-> <<>>,
      prefix |-> px, runtimeEnv |-> RuntimeEnvUndefined, isServer |-> TRUE,
      emptyStringAsUndefined |-> FALSE, onValidationError |-> "undefined",
      resolvers |-> n, autoRedactResolver |-> ar] :
        a \in [{"A"} -> ResolverSchemas], b \in Dicts({"B"}, {requiredString}),
        px \in {PrefixUndefined, PrefixString("P_")},
        n \in 1..MaxResolvers, ar \in {"undefined", "true", "false"}}

ResolverEnvs == {[n \in {} |-> Undefined], [n \in AllNames |-> "1"]}

\* raw environments with empty strings
RawEnvs == {[n \in AllNames |-> ""], [n \in AllNames |-> IF n = "A" THEN "" ELSE "1"]}

\* calls that read the ambient or an explicit raw environment, with and
\* without the normalisation of empty strings
RawOpts ==
    {[server |-> sv, client |-> EmptyDict, shared |-> EmptyDict, extends |-> <<>>,
      prefix |-> PrefixUndefined, runtimeEnv |-> re, isServer |-> TRUE,
      emptyStringAsUndefined |-> es, onValidationError |-> "undefined"] :
        sv \in Dicts(Keys, {requiredString, optional(requiredString)}),
        re \in {RuntimeEnvUndefined} \cup {RuntimeEnvGiven(env) : env \in RawEnvs},
        es \in BOOLEAN}

\* the same calls with resolvers
RawResolverOpts ==
    {[server |-> sv, client |-> EmptyDict, shared |-> EmptyDict, extends |-> <<>>,
      prefix |-> PrefixUndefined, runtimeEnv |-> re, isServer |-> TRUE,
      emptyStringAsUndefined |-> es, onValidationError |-> "undefined",
      resolvers |-> n, autoRedactResolver |-> "undefined"] :
        sv \in [{"A"} -> {requiredString, optional(requiredString)}],
        re \in {RuntimeEnvUndefined} \cup {RuntimeEnvGiven(env) : env \in RawEnvs},
        es \in BOOLEAN, n \in 1..MaxResolvers}

\* the schemas withDefault is applied to, the defaults it is given and the
\* raw values it decodes
DefaultedSchemas ==
    {requiredString, commaSeparatedNumbers, optional(requiredString),
     optional(commaSeparatedNumbers), redacted(requiredString),
     redacted(commaSeparatedNumbers), withDefault(requiredString, StrVal("i"))}

Defaults == {StrVal(""), StrVal("d"), ArrVal("1"), RedactedMake(StrVal("d"))}

RawValues == {Undefined, "", "1", "x"}

\* the directives the documents of the model carry
DirectiveSets ==
    {[type |-> t, optional |-> o, hasDefault |-> h, redacted |-> r, bucket |-> b,
      stringEnumValues |-> IF t = "stringEnum" THEN <<"dev", "prod">> ELSE <<>>] :
        t \in {Absent, "number", "stringEnum"}, o \in {Absent, "true", "false"},
        h \in {Absent, "false"}, r \in {Absent, "true"}, b \in {Absent, "client"}}

DocPrefixes == {NoPrefix, [server |-> "S_", client |-> "", shared |-> Absent]}

\* documents of up to MaxEntries entries with distinct keys, whose lines
\* run against the order of the entries
Documents ==
    {[entries |-> [i \in 1..Len(ds) |->
                      [key |-> DocKeys[i], value |-> DocValues[i], line |-> Len(ds) + 1 - i,
                       sectionBucket |-> Absent, directives |-> ds[i]]],
      prefix |-> px] :
        ds \in SeqsUpTo(DirectiveSets, MaxEntries),
        px \in DocPrefixes}

\* FRAMEWORK_PREFIXES
FRAMEWORK_PREFIXES ==
    [nextjs |-> [server |-> "", client |-> "NEXT_PUBLIC_", shared |-> ""],
     vite |-> [server |-> "", client |-> "VITE_", shared |-> ""],
     expo |-> [server |-> "", client |-> "EXPO_PUBLIC_", shared |-> ""],
     nuxt |-> [server |-> "", client |-> "NUXT_PUBLIC_", shared |-> ""],
     sveltekit |-> [server |-> "", client |-> "PUBLIC_", shared |-> ""],
     astro |-> [server |-> "", client |-> "PUBLIC_", shared |-> ""]]

\* the flags of `add env`
AddEnvOptions(framework, serverPrefix, clientPrefix, sharedPrefix, force) ==
    [framework |-> framework, serverPrefix |-> serverPrefix, clientPrefix |-> clientPrefix,
     sharedPrefix |-> sharedPrefix, force |-> force]

\* the lines of an assignment under a comment with its directives
AssignmentUnder(tokens, key, value) ==
    (IF tokens = <<>> THEN <<>> ELSE <<CommentLine(tokens)>>)
    \o <<AssignmentLine(key, value, <<>>)>>

\* the assignments of the texts that go through both commands
RoundTripAssignments ==
    {AssignmentUnder((IF type = Absent THEN <<>> ELSE <<Token("type", type, <<>>)>>)
                     \o (IF flag = Absent THEN <<>> ELSE <<Token(flag, "", <<>>)>>),
                     key, value) :
        type \in {Absent, "string", "port"},
        flag \in {Absent, "no-default", "optional", "redacted"},
        key \in {"PORT", "RATE"},
        value \in {"3000", "0", "2.0", "abc", ""}}

\* lines.flat()
RECURSIVE Flatten(_)
Flatten(groups) == IF groups = <<>> THEN <<>> ELSE Head(groups) \o Flatten(Tail(groups))

RoundTripTexts == {Flatten(groups) : groups \in SeqsUpTo(RoundTripAssignments, MaxTextEntries)}

\* assignments with and without a bucket directive, of keys that start with
\* none, one or two of the prefixes
InferAssignments ==
    {AssignmentUnder(IF bucket = Absent THEN <<>> ELSE <<Token("bucket", bucket, <<>>)>>,
                     key, "abc") :
        bucket \in {Absent, "shared"}, key \in {"A", "P_A", "P_Q_A"}}

\* texts with and without a section header over their assignments
InferTexts ==
    {header \o Flatten(groups) :
        header \in {<<>>, <<CommentLine(<<Token("client", "", <<>>)>>)>>},
        groups \in SeqsUpTo(InferAssignments, MaxInferEntries)}

\* prefix flags that overlap
InferOptions ==
    {AddEnvOptions(Absent, serverPrefix, clientPrefix, sharedPrefix, TRUE) :
        serverPrefix \in {"", "P_"}, clientPrefix \in {"", "P_", "P_Q_"},
        sharedPrefix \in {"", "P_Q_"}}

\* directive tokens the parser accepts and directive tokens it rejects
DecodeTokens ==
    {Token("optional", "", <<>>), Token("optional", "false", <<>>),
     Token("redacted", "true", <<>>), Token("type", "port", <<>>),
     Token("bucket", "client", <<>>), Token("no-default", "", <<>>),
     Token("unknown", "", <<>>), Token("type", "nope", <<>>), Token("type", "", <<>>),
     Token("type", "enum", <<>>), Token("bucket", "", <<>>),
     Token("optional", "maybe", <<>>), Token("redacted", "maybe", <<>>)}

\* a blank line, or the i-th assignment with a token above it or behind it
DecodeGroups(i) ==
    {<<BlankLine>>}
    \cup {AssignmentUnder(<<token>>, DocKeys[i], "abc") : token \in DecodeTokens}
    \cup {<<AssignmentLine(DocKeys[i], "abc", <<token>>)>> : token \in DecodeTokens}

\* the groups of the first n positions
RECURSIVE GroupsUpTo(_)
GroupsUpTo(n) ==
    IF n = 0 THEN {<<>>}
    ELSE {Append(groups, group) : groups \in GroupsUpTo(n - 1), group \in DecodeGroups(n)}

DecodeTexts == {Flatten(groups) : groups \in UNION {GroupsUpTo(n) : n \in 0..MaxDecodeGroups}}

\* the section headers of the buckets named, each with the prefix it embeds
PrefixHeaders(buckets) ==
    LET named == SelectSeq(BUCKETS, LAMBDA b : b \in buckets) IN
    [i \in 1..Len(named) |-> CommentLine(<<Token(named[i], "DOC_", <<>>)>>)]

\* texts that embed a prefix for some of the buckets
PrefixTexts ==
    {PrefixHeaders(buckets) \o <<AssignmentLine("A", "abc", <<>>)>> : buckets \in SUBSET Buckets}

\* the frameworks and the prefix flags `add env` is called with
PrefixOptions ==
    {AddEnvOptions(framework, serverPrefix, clientPrefix, sharedPrefix, TRUE) :
        framework \in {Absent} \cup DOMAIN FRAMEWORK_PREFIXES,
        serverPrefix \in {Absent, "", "CLI_"},
        clientPrefix \in {Absent, "", "CLI_"},
        sharedPrefix \in {Absent, "", "CLI_"}}

\* fromRemoteSecrets: the env keys of the secrets record, in insertion order
RemoteKey(i) == <<"A", "B", "C">>[i]

\* the secret IDs of the store, and the value the store holds for each
RemoteIdOrder == <<"s1", "s2">>
RemoteIds == {RemoteIdOrder[i] : i \in 1..Len(RemoteIdOrder)}
SecretValue(id) == "value of " \o id

\* secrets records of up to MaxSecrets keys: two keys may name the same ID
RemoteSecrets ==
    UNION {{[i \in 1..n |-> [envKey |-> RemoteKey(i), secretId |-> ids[i]]] :
                ids \in [1..n -> RemoteIds]} : n \in 0..MaxSecrets}

\* clients with and without the batch operation, every value of strict
RemoteOpts ==
    {[secrets |-> secrets, client |-> [getSecrets |-> batch], strict |-> strict] :
        secrets \in RemoteSecrets, batch \in BOOLEAN,
        strict \in {"undefined", "false", "true"}}

\* the Maps a batch call can resolve with: entries for some of the
\* requested IDs, each with the stored value or undefined
BatchResults(ids) ==
    LET requested == {ids[i] : i \in 1..Len(ids)}
        EntriesOf(found) ==
            LET present == SelectSeq(RemoteIdOrder, LAMBDA id : id \in DOMAIN found)
            IN  [i \in 1..Len(present) |->
                    <<present[i], IF found[present[i]] THEN SecretValue(present[i])
                                  ELSE Undefined>>]
    IN  {EntriesOf(found) : found \in UNION {[d -> BOOLEAN] : d \in SUBSET requested}}

\* examineSchema: the wrapping combinators of hand-written code
Wrappers == {"optional", "withDefault", "redacted"}

\* every subset of the wrappers in every order, the first applied first
WrapperStacks ==
    {stack \in SeqsUpTo(Wrappers, Cardinality(Wrappers)) :
        \A i, j \in 1..Len(stack) : i # j => stack[i] # stack[j]}

\* kind schemas, each with a default of its decoded type
KindSchemas ==
    {[schema |-> requiredString, d |-> StrVal("d")],
     [schema |-> boolean, d |-> BoolVal("true")],
     [schema |-> port, d |-> NumVal("3000")],
     [schema |-> stringEnum(<<"a", "b">>), d |-> StrVal("a")]}

\* the wrappers of a stack applied to a schema, innermost first
RECURSIVE Wrap(_, _, _)
Wrap(schema, stack, d) ==
    IF stack = <<>> THEN schema
    ELSE Wrap(CASE Head(stack) = "optional" -> optional(schema)
                [] Head(stack) = "withDefault" -> withDefault(schema, d)
                [] Head(stack) = "redacted" -> redacted(schema),
              Tail(stack), d)

\* createEnv effects with every callback: A is required, and a resolver
\* may leave it undefined
CallbackResolverOpts ==
    {[server |-> [k \in {"A"} |-> requiredString] @@ b, client |-> EmptyDict,
      shared |-> EmptyDict, extends |-> <<>>,
      prefix |-> PrefixUndefined, runtimeEnv |-> RuntimeEnvUndefined, isServer |-> TRUE,
      emptyStringAsUndefined |-> FALSE, onValidationError |-> cb,
      resolvers |-> n, autoRedactResolver |-> "undefined"] :
        b \in Dicts({"B"}, {requiredString, commaSeparatedNumbers}),
        cb \in Callbacks, n \in 1..MaxResolvers}

\* calls that declare a key in several buckets: every bucket has its own
\* schema and its own prefix, and every prefixed name its own value
BucketPrefix == PrefixObject([server |-> "SV_", client |-> "CL_", shared |-> "SH_"])

BucketOpts ==
    {[server |-> sv, client |-> cl, shared |-> sh, extends |-> <<>>,
      prefix |-> BucketPrefix, runtimeEnv |-> RuntimeEnvUndefined, isServer |-> is,
      emptyStringAsUndefined |-> FALSE, onValidationError |-> "undefined"] :
        sv \in Dicts(Keys, {requiredString}),
        cl \in Dicts(Keys, {redacted(requiredString)}),
        sh \in Dicts(Keys, {commaSeparatedNumbers}), is \in BOOLEAN}

BucketEnv ==
    [name \in {p \o k : p \in {"SV_", "CL_", "SH_"}, k \in Keys} |->
        IF StartsWith(name, "SV_") THEN "1"
        ELSE IF StartsWith(name, "CL_") THEN "2" ELSE "3"]

\* directives that mark an assignment, and section directives
MarkTokens == {Token("optional", "", <<>>), Token("redacted", "true", <<>>)}
SectionTokens == {Token("server", "", <<>>), Token("client", "DOC_", <<>>)}

\* comment lines of one or two directives
DirectiveLines ==
    {CommentLine(tokens) : tokens \in SeqsUpTo(MarkTokens \cup SectionTokens, 2) \ {<<>>}}

\* one assignment under comment lines of directives
DirectiveTexts ==
    {comments \o <<AssignmentLine("A", "abc", <<>>)>> :
        comments \in SeqsUpTo(DirectiveLines, MaxCommentLines)}

-----------------------------------------------------------------------------
(* Operations *)

NoEffect == [status |-> "idle"]

\* the raw environment object a call reads: opts.runtimeEnv ?? process.env
RawOf(opts) == IF opts.runtimeEnv.given THEN opts.runtimeEnv.env ELSE processEnv

\* mutant: the empty strings are replaced in the object that was passed in
RawNormalizedInPlace(runtimeEnv, emptyStringAsUndefined) ==
    normalizeRuntimeEnv(runtimeEnv, emptyStringAsUndefined)

\* the object passed to normalizeRuntimeEnv, after the call: the function
\* returns it as it is or builds a new object with Object.fromEntries
RawAfterNormalize(runtimeEnv, emptyStringAsUndefined) == runtimeEnv

\* the base object passed to Object.assign({}, base, ...results), after the
\* call: the target of the assignment is a fresh object
RawAfterAssign(base, results) == base

\* mutant: the object is returned without an entry in the side table
SettleWithoutMeta(op, opts, built, raw) ==
    IF built.error # NoError
    THEN /\ last' = [op |-> op, opts |-> opts, outcome |-> "error",
                     error |-> built.error, env |-> 0, raw |-> raw]
         /\ UNCHANGED <<envs, envMetaStore, declared>>
    ELSE /\ envs' = Append(envs, built.env)
         /\ UNCHANGED envMetaStore
         /\ declared' = Append(declared, [serverKeys |-> DOMAIN opts.server,
                                          clientKeys |-> DOMAIN opts.client,
                                          sharedKeys |-> DOMAIN opts.shared,
                                          extends |-> opts.extends])
         /\ last' = [op |-> op, opts |-> opts, outcome |-> "env",
                     error |-> NoError, env |-> Len(envs) + 1, raw |-> raw]

\* what a finished buildEnv leaves behind: the new object and its metadata,
\* or the exception; raw is the raw environment object after the call
Settle(op, opts, built, raw) ==
    IF built.error # NoError
    THEN /\ last' = [op |-> op, opts |-> opts, outcome |-> "error",
                     error |-> built.error, env |-> 0, raw |-> raw]
         /\ UNCHANGED <<envs, envMetaStore, declared>>
    ELSE /\ envs' = Append(envs, built.env)
         /\ envMetaStore' = Append(envMetaStore, built.meta)
         /\ declared' = Append(declared, [serverKeys |-> DOMAIN opts.server,
                                          clientKeys |-> DOMAIN opts.client,
                                          sharedKeys |-> DOMAIN opts.shared,
                                          extends |-> opts.extends])
         /\ last' = [op |-> op, opts |-> opts, outcome |-> "env",
                     error |-> NoError, env |-> Len(envs) + 1, raw |-> raw]

\* createEnv(opts) without resolvers
CreateEnv(opts) ==
    /\ effect = NoEffect
    /\ calls' = calls + 1
    /\ IF introspectOnly
       THEN /\ last' = [op |-> "createEnv", opts |-> opts, outcome |-> "noop",
                        error |-> NoError, env |-> 0, raw |-> RawOf(opts)]
            /\ UNCHANGED <<envs, envMetaStore, declared, processEnv>>
       ELSE LET raw == RawAfterNormalize(RawOf(opts), opts.emptyStringAsUndefined) IN
            /\ Settle("createEnv", opts,
                      buildEnv(opts, NoAutoRedact, envs, envMetaStore, processEnv), raw)
            /\ processEnv' = IF opts.runtimeEnv.given THEN processEnv ELSE raw
    /\ UNCHANGED <<effect, introspectOnly>>

\* Effect.all(opts.resolvers, { concurrency: "unbounded" }) forks one fiber
\* per resolver
Pending == [state |-> "pending", result |-> <<>>]

NotMerged == [mergedEnv |-> <<>>, autoRedactKeys |-> {}]

ConstructedEffect(opts) ==
    [status |-> "constructed", opts |-> opts,
     fibers |-> [i \in 1..opts.resolvers |-> Pending], order |-> <<>>,
     merged |-> NotMerged, validation |-> NoValidation]

\* Effect.runPromise(createEnv(opts)): the resolvers start
RunEffect ==
    /\ effect.status \in {"constructed", "succeeded", "failed"}
    /\ effect' = [ConstructedEffect(effect.opts) EXCEPT !.status = "running"]
    /\ calls' = calls + 1
    /\ last' = [op |-> "runEffect", outcome |-> "pending", error |-> NoError, env |-> 0]
    /\ UNCHANGED <<envs, envMetaStore, introspectOnly, processEnv, declared>>

\* mutant: only the first resolver is looked at
AutoRedactKeysOfFirst(results) ==
    {key \in DOMAIN results[1] : results[1][key] # Undefined}

\* mutant: an undefined value marks its key too
AutoRedactKeysOfAny(results) ==
    UNION {DOMAIN results[i] : i \in 1..Len(results)}

\* the keys some resolver supplied a defined value for
AutoRedactKeysOf(results) ==
    {key \in UNION {DOMAIN results[i] : i \in 1..Len(results)} :
        \E i \in 1..Len(results) : key \in DOMAIN results[i] /\ results[i][key] # Undefined}

\* Object.assign({}, base, ...results): every own property of a later
\* source overwrites, an undefined one too
RECURSIVE ObjectAssign(_, _)
ObjectAssign(target, sources) ==
    IF sources = <<>> THEN target
    ELSE ObjectAssign(Head(sources) @@ target, Tail(sources))

\* mutant: the results in the order the resolvers completed in
ResultsInCompletionOrder(fibers, order) ==
    [i \in 1..Len(fibers) |-> fibers[order[i]].result]

\* the results of Effect.all, in the order of the resolvers array
ResultsOf(fibers, order) == [i \in 1..Len(fibers) |-> fibers[i].result]

\* Effect.map: the merged environment and the keys to redact
MergeResults(opts, results, ambientEnv) ==
    [mergedEnv |-> ObjectAssign(IF opts.runtimeEnv.given THEN opts.runtimeEnv.env
                                ELSE ambientEnv, results),
     autoRedactKeys |-> IF opts.autoRedactResolver # "false"
                        THEN AutoRedactKeysOf(results) ELSE {}]

\* Effect.try around buildEnv: whatever buildEnv throws becomes a validation error
TryBuildEnv(opts, merged, store, metaStore) ==
    LET built == buildEnv([opts EXCEPT !.runtimeEnv = RuntimeEnvGiven(merged.mergedEnv)],
                          [enabled |-> opts.autoRedactResolver # "false",
                           keys |-> merged.autoRedactKeys],
                          store, metaStore, merged.mergedEnv)
    IN  IF built.error = NoError \/ built.error.type = "EnvValidationError" THEN built
        ELSE [error |-> EnvValidationError(<<ErrorToString(built.error)>>)]

\* what the validation of the buildEnv call under Effect.try did
TryValidationOf(opts, merged) ==
    ValidationOf([opts EXCEPT !.runtimeEnv = RuntimeEnvGiven(merged.mergedEnv)],
                 [enabled |-> opts.autoRedactResolver # "false",
                  keys |-> merged.autoRedactKeys],
                 merged.mergedEnv)

\* resolver i succeeds with a result; the fiber that completes last goes on
\* to merge the results and to build the environment
ResolverSucceed(i, result) ==
    /\ effect.status = "running"
    /\ i \in DOMAIN effect.fibers
    /\ effect.fibers[i].state = "pending"
    /\ LET fibers == [effect.fibers EXCEPT ![i] = [state |-> "done", result |-> result]]
           order == Append(effect.order, i)
       IN  IF \E j \in DOMAIN fibers : fibers[j].state = "pending"
           THEN /\ effect' = [effect EXCEPT !.fibers = fibers, !.order = order]
                /\ UNCHANGED <<envs, envMetaStore, last, declared, processEnv>>
           ELSE LET merged == MergeResults(effect.opts, ResultsOf(fibers, order), processEnv)
                    built == TryBuildEnv(effect.opts, merged, envs, envMetaStore)
                    raw == RawAfterAssign(RawOf(effect.opts), ResultsOf(fibers, order))
                IN  /\ effect' = [effect EXCEPT !.fibers = fibers, !.order = order,
                                     !.merged = merged,
                                     !.validation = TryValidationOf(effect.opts, merged),
                                     !.status = IF built.error = NoError
                                                THEN "succeeded" ELSE "failed"]
                    /\ Settle("runEffect", effect.opts, built, raw)
                    /\ processEnv' = IF effect.opts.runtimeEnv.given THEN processEnv
                                      ELSE raw
    /\ UNCHANGED <<introspectOnly, calls>>

\* mutant: a failed resolver counts as one that supplied nothing
ResolverFailRecovered(i) ==
    /\ effect.status = "running"
    /\ i \in DOMAIN effect.fibers
    /\ effect.fibers[i].state = "pending"
    /\ effect' = [effect EXCEPT !.order = Append(@, i),
                                !.fibers[i] = [state |-> "failed", result |-> <<>>]]
    /\ UNCHANGED <<envs, envMetaStore, last, introspectOnly, processEnv, calls, declared>>

\* resolver i fails: the effect fails with its error and the fibers still
\* running are interrupted
ResolverFail(i) ==
    /\ effect.status = "running"
    /\ i \in DOMAIN effect.fibers
    /\ effect.fibers[i].state = "pending"
    /\ effect' = [effect EXCEPT
                    !.status = "failed",
                    !.order = Append(@, i),
                    !.fibers = [j \in DOMAIN @ |->
                                  IF j = i THEN [state |-> "failed", result |-> <<>>]
                                  ELSE IF @[j].state = "pending"
                                  THEN [state |-> "interrupted", result |-> <<>>]
                                  ELSE @[j]]]
    /\ last' = [op |-> "runEffect", opts |-> effect.opts, outcome |-> "error",
                error |-> ResolverError(ResolverValue(i)), env |-> 0,
                raw |-> RawOf(effect.opts)]
    /\ UNCHANGED <<envs, envMetaStore, introspectOnly, processEnv, calls, declared>>

\* Schema.decodeUnknownEither(schema)(raw), called on its own
DecodeUnknownEither(schema, raw) ==
    /\ last' = [op |-> "decode", schema |-> schema, raw |-> raw,
                result |-> Decode(schema, raw)]
    /\ UNCHANGED <<envs, envMetaStore, effect, introspectOnly, processEnv, calls, declared>>

\* encodeDotenvText(document) of the document at hand
EncodeDotenvText ==
    /\ last.op = "document"
    /\ last' = [op |-> "encodeDotenvText", document |-> last.document,
                text |-> stringifyDotenvDocument(last.document)]
    /\ UNCHANGED <<envs, envMetaStore, effect, introspectOnly, processEnv, calls, declared>>

\* decodeDotenvText(text) of the text encoded last
DecodeEncoded ==
    /\ last.op = "encodeDotenvText"
    /\ last' = [op |-> "decodeDotenvText", document |-> last.document, text |-> last.text,
                error |-> parseDotenvText(last.text).error,
                decoded |-> parseDotenvText(last.text).document]
    /\ UNCHANGED <<envs, envMetaStore, effect, introspectOnly, processEnv, calls, declared>>

\* mutant: a set trap that writes
SetTrapWrites(env, prop, value) ==
    [error |-> TypeError, target |-> (prop :> value) @@ env.target]

\* the traps of the proxy: the error thrown and the target afterwards
SetTrap(env, prop, value) == [error |-> TypeError, target |-> env.target]
DeletePropertyTrap(env, prop) == [error |-> TypeError, target |-> env.target]
DefinePropertyTrap(env, prop, value) == [error |-> TypeError, target |-> env.target]

\* env[prop]
Get(e, prop) ==
    /\ last' = [op |-> "get", env |-> e, prop |-> prop,
                error |-> GetTrapError(envs[e], prop),
                value |-> IF GetTrapError(envs[e], prop) # NoError THEN UndefVal
                          ELSE GetTrapValue(envs[e], prop)]
    /\ UNCHANGED <<envs, envMetaStore, effect, introspectOnly, processEnv, calls, declared>>

Mutate(op, e, prop, trap) ==
    /\ envs' = [envs EXCEPT ![e].target = trap.target]
    /\ last' = [op |-> op, env |-> e, prop |-> prop, error |-> trap.error]
    /\ UNCHANGED <<envMetaStore, effect, introspectOnly, processEnv, calls, declared>>

\* env[prop] = value
Set(e, prop, value) == Mutate("set", e, prop, SetTrap(envs[e], prop, value))

\* delete env[prop]
DeleteProperty(e, prop) == Mutate("deleteProperty", e, prop, DeletePropertyTrap(envs[e], prop))

\* Object.defineProperty(env, prop, { value })
DefineProperty(e, prop, value) ==
    Mutate("defineProperty", e, prop, DefinePropertyTrap(envs[e], prop, value))

\* runAddExample sets the sentinel around the import of the schema module
SetIntrospectOnly ==
    /\ ~introspectOnly
    /\ effect = NoEffect
    /\ introspectOnly' = TRUE
    /\ last' = [op |-> "none"]
    /\ UNCHANGED <<envs, envMetaStore, effect, processEnv, calls, declared>>

ClearIntrospectOnly ==
    /\ introspectOnly
    /\ introspectOnly' = FALSE
    /\ last' = [op |-> "none"]
    /\ UNCHANGED <<envs, envMetaStore, effect, processEnv, calls, declared>>

WrittenValues == {StrVal("w")}

\* a ?? b ?? c ?? ""
FirstSet(a, b, c) ==
    IF a # Absent THEN a ELSE IF b # Absent THEN b ELSE IF c # Absent THEN c ELSE ""

\* mutant: the prefix of the document goes before the preset
resolvePrefixDocumentFirst(options, fromDocument) ==
    LET fromFramework == IF options.framework # Absent
                         THEN FRAMEWORK_PREFIXES[options.framework] ELSE NoPrefix
    IN  [server |-> FirstSet(options.serverPrefix, fromDocument.server, fromFramework.server),
         client |-> FirstSet(options.clientPrefix, fromDocument.client, fromFramework.client),
         shared |-> FirstSet(options.sharedPrefix, fromDocument.shared, fromFramework.shared)]

resolvePrefix(options, fromDocument) ==
    LET fromFramework == IF options.framework # Absent
                         THEN FRAMEWORK_PREFIXES[options.framework] ELSE NoPrefix
    IN  [server |-> FirstSet(options.serverPrefix, fromFramework.server, fromDocument.server),
         client |-> FirstSet(options.clientPrefix, fromFramework.client, fromDocument.client),
         shared |-> FirstSet(options.sharedPrefix, fromFramework.shared, fromDocument.shared)]

\* the input file before the first command: no source is generated yet
InputFile(text, options) ==
    [op |-> "text", text |-> text, options |-> options, envTs |-> Absent, pass |-> 0]

\* runAddEnv(options): the input file is decoded, the model is inferred and
\* the source is generated and written; every error leaves the output file
\* as it was
RunAddEnv ==
    /\ last.op \in {"text", "add example"}
    /\ last.pass < MaxPasses
    /\ \E dotenv \in {parseDotenvText(last.text)} :
       \E prefix \in {resolvePrefix(last.options, dotenv.document.prefix)} :
       \E inferred \in {IF dotenv.error = NoParseError
                        THEN inferModel(dotenv.document, prefix)
                        ELSE [error |-> NoInferError,
                              model |-> [prefix |-> prefix, variables |-> <<>>,
                                         runtimeEnv |-> <<>>]]} :
       \E written \in {/\ dotenv.error = NoParseError
                       /\ inferred.error = NoInferError
                       /\ (last.envTs = Absent \/ last.options.force)} :
          last' = [op |-> "add env", text |-> last.text, options |-> last.options,
                   pass |-> last.pass + 1,
                   error |-> dotenv.error,
                   dotenv |-> dotenv.document,
                   prefix |-> prefix,
                   inferError |-> inferred.error,
                   model |-> inferred.model,
                   written |-> written,
                   previous |-> last.envTs,
                   envTs |-> IF written THEN generateEnvTs(inferred.model) ELSE last.envTs]
    /\ UNCHANGED <<envs, envMetaStore, effect, introspectOnly, processEnv, calls, declared>>

\* runAddExample(options): the generated source is imported under
\* ENVIL_INTROSPECT_ONLY, which is deleted again, and the example built from
\* its envDefinition is written over the input file, which takes --force
RunAddExample ==
    /\ last.op = "add env"
    /\ last.written
    /\ last.options.force
    /\ last' = [op |-> "add example",
                text |-> buildEnvExample(modelToDefinition(last.model)),
                options |-> last.options, envTs |-> last.envTs, pass |-> last.pass]
    /\ introspectOnly' = FALSE
    /\ UNCHANGED <<envs, envMetaStore, effect, processEnv, calls, declared>>

\* fromRemoteSecrets has returned the record built from the secret values
RemoteSucceeds(run, secretValues) ==
    /\ effect' = [run EXCEPT !.status = "succeeded"]
    /\ last' = [op |-> "fromRemoteSecrets", opts |-> run.opts, outcome |-> "success",
                result |-> RemoteRecord(run.opts, secretValues), error |-> NoError,
                fetches |-> run.fetches, getSecretCalls |-> run.getSecretCalls,
                getSecretsCalls |-> run.getSecretsCalls]

\* fromRemoteSecrets has failed with the error of strictOrElse
RemoteFails(run, error) ==
    /\ effect' = [run EXCEPT !.status = "failed"]
    /\ last' = [op |-> "fromRemoteSecrets", opts |-> run.opts, outcome |-> "failure",
                result |-> EmptyMap, error |-> error,
                fetches |-> run.fetches, getSecretCalls |-> run.getSecretCalls,
                getSecretsCalls |-> run.getSecretsCalls]

\* fromRemoteSecrets(opts) starts: one getSecrets call for the batch, or
\* one getSecret call per entry of secretIds, every fiber of
\* Effect.forEach being forked before a promise settles
FromRemoteSecrets ==
    /\ last.op = "remote"
    /\ effect.status = "idle"
    /\ \E ids \in {SecretIdsOf(last.opts)} :
       \E run \in {[status |-> IF UsesBatch(last.opts) THEN "batch" ELSE "fetching",
                    opts |-> last.opts,
                    fetches |-> IF UsesBatch(last.opts) THEN <<>>
                                ELSE [i \in 1..Len(ids) |->
                                        [state |-> "pending", value |-> Undefined]],
                    getSecretCalls |-> IF UsesBatch(last.opts) THEN <<>> ELSE ids,
                    getSecretsCalls |-> IF UsesBatch(last.opts) THEN <<ids>> ELSE <<>>]} :
          IF run.status = "fetching" /\ ids = <<>>
          THEN RemoteSucceeds(run, EmptyMap)
          ELSE effect' = run /\ UNCHANGED last
    /\ UNCHANGED <<envs, envMetaStore, introspectOnly, processEnv, calls, declared>>

\* the promise of getSecret call i settles; the fiber that completes last
\* goes on to fill the map and to build the record, and a failure under
\* strict fails the effect and interrupts the fibers still running
GetSecretSettles(i, settled) ==
    /\ effect.status = "fetching"
    /\ i \in DOMAIN effect.fetches
    /\ effect.fetches[i].state = "pending"
    /\ \E outcome \in {strictOrElse(settled,
                          [strict |-> StrictOf(effect.opts), resolver |-> "remote",
                           fallback |-> Undefined])} :
       IF outcome.ok
       THEN \E run \in {[effect EXCEPT !.fetches[i] =
                            [state |-> IF settled.ok THEN "resolved" ELSE "rejected",
                             value |-> outcome.value]]} :
               IF \E j \in DOMAIN run.fetches : run.fetches[j].state = "pending"
               THEN effect' = run /\ UNCHANGED last
               ELSE RemoteSucceeds(run, ValuesOfResults(SecretIdsOf(run.opts), run.fetches))
       ELSE RemoteFails([effect EXCEPT !.fetches =
                            [j \in DOMAIN @ |->
                                IF j = i THEN [state |-> "rejected", value |-> Undefined]
                                ELSE IF @[j].state = "pending"
                                THEN [state |-> "interrupted", value |-> Undefined]
                                ELSE @[j]]],
                        outcome.error)
    /\ UNCHANGED <<envs, envMetaStore, introspectOnly, processEnv, calls, declared>>

\* client.getSecret(secretId) of call i resolves with a value or undefined
GetSecretResolves(i, value) == GetSecretSettles(i, Fulfilled(value))

\* client.getSecret(secretId) of call i rejects
GetSecretRejects(i) == GetSecretSettles(i, Rejected)

\* the promise of the getSecrets call settles
GetSecretsSettles(settled) ==
    /\ effect.status = "batch"
    /\ \E outcome \in {strictOrElse(settled,
                          [strict |-> StrictOf(effect.opts), resolver |-> "remote",
                           fallback |-> <<>>])} :
       IF outcome.ok
       THEN RemoteSucceeds([effect EXCEPT !.fetches =
                                <<[state |-> IF settled.ok THEN "resolved" ELSE "rejected",
                                   value |-> outcome.value]>>],
                           ValuesOfBatch(SecretIdsOf(effect.opts), outcome.value))
       ELSE RemoteFails([effect EXCEPT !.fetches =
                            <<[state |-> "rejected", value |-> <<>>]>>], outcome.error)
    /\ UNCHANGED <<envs, envMetaStore, introspectOnly, processEnv, calls, declared>>

\* client.getSecrets(secretIds) resolves with a Map
GetSecretsResolves(batchResult) == GetSecretsSettles(Fulfilled(batchResult))

\* client.getSecrets(secretIds) rejects
GetSecretsRejects == GetSecretsSettles(Rejected)

\* examineSchema(schema) of the schema at hand
ExamineSchema ==
    /\ last.op = "schema"
    /\ last' = [op |-> "examineSchema", base |-> last.base, stack |-> last.stack,
                d |-> last.d, schema |-> last.schema,
                examined |-> examineSchema(last.schema)]
    /\ UNCHANGED <<envs, envMetaStore, effect, introspectOnly, processEnv, calls, declared>>

\* JSON.stringify writes a Redacted value through its toJSON
JsonValue(value) == IF IsRedacted(value) THEN StrVal("<redacted>") ELSE value

\* the own enumerable properties of the proxy, each read through the get
\* trap in property order: the first trap that throws ends the operation
ReadAll(op, e, ValueOf(_)) ==
    /\ last' = [op |-> op, env |-> e, prop |-> "", error |-> EntriesError(envs[e]),
                yielded |-> IF EntriesError(envs[e]) # NoError THEN EmptyValues
                            ELSE [key \in DOMAIN envs[e].target |->
                                    ValueOf(envs[e].target[key])]]
    /\ UNCHANGED <<envs, envMetaStore, effect, introspectOnly, processEnv, calls, declared>>

\* Object.entries(env)
ObjectEntries(e) == ReadAll("entries", e, LAMBDA value : value)

\* { ...env }
ObjectSpread(e) == ReadAll("spread", e, LAMBDA value : value)

\* JSON.stringify(env)
JsonStringify(e) == ReadAll("stringify", e, JsonValue)

\* Object.getOwnPropertyDescriptor(env, prop): the proxy has no trap for
\* it, so the descriptor of the target is returned
GetOwnPropertyDescriptor(e, prop) ==
    /\ last' = [op |-> "getOwnPropertyDescriptor", env |-> e, prop |-> prop,
                error |-> NoError,
                yielded |-> IF prop \in DOMAIN envs[e].target
                            THEN (prop :> envs[e].target[prop]) ELSE EmptyValues]
    /\ UNCHANGED <<envs, envMetaStore, effect, introspectOnly, processEnv, calls, declared>>

-----------------------------------------------------------------------------
(* Specifications *)

InitWith(environments) ==
    /\ envs = <<>>
    /\ envMetaStore = <<>>
    /\ last = [op |-> "none"]
    /\ effect = NoEffect
    /\ introspectOnly = FALSE
    /\ processEnv \in environments
    /\ calls = 0
    /\ declared = <<>>

\* environments that extend one another, and reads through their proxies
Init == InitWith(ChainEnvs)

Next ==
    \/ calls < MaxCalls /\ \E opts \in ChainOpts : CreateEnv(opts)
    \/ \E e \in 1..Len(envs), prop \in Keys : Get(e, prop)

Spec == Init /\ [][Next]_vars

\* environments built from different raw environments that extend one another
InitExtends == InitWith({[n \in {} |-> Undefined]})

NextExtends == calls < MaxMergeCalls /\ \E opts \in MergeOpts : CreateEnv(opts)

SpecExtends == InitExtends /\ [][NextExtends]_vars

\* server environments that extend one another, and every trap of their
\* proxies
NextReadOnly ==
    \/ calls < MaxCalls /\ \E opts \in ReadOnlyOpts : CreateEnv(opts)
    \/ \E e \in 1..Len(envs), prop \in Keys : Get(e, prop)
    \/ \E e \in 1..Len(envs), prop \in Keys, value \in WrittenValues : Set(e, prop, value)
    \/ \E e \in 1..Len(envs), prop \in Keys : DeleteProperty(e, prop)
    \/ \E e \in 1..Len(envs), prop \in Keys, value \in WrittenValues :
           DefineProperty(e, prop, value)

SpecReadOnly == Init /\ [][NextReadOnly]_vars

\* validation of one schema set against one environment
InitValidate == InitWith(ValidateEnvs)

NextValidate ==
    \/ calls < MaxValidateCalls /\ \E opts \in ValidateOpts : CreateEnv(opts)
    \/ \E e \in 1..Len(envs), prop \in Keys : Get(e, prop)

SpecValidate == InitValidate /\ [][NextValidate]_vars

\* one createEnv effect with resolvers, run to completion
InitResolvers ==
    /\ envs = <<>>
    /\ envMetaStore = <<>>
    /\ last = [op |-> "none"]
    /\ \E opts \in ResolverOpts : effect = ConstructedEffect(opts)
    /\ introspectOnly = FALSE
    /\ processEnv \in ResolverEnvs
    /\ calls = 0
    /\ declared = <<>>

NextResolvers ==
    \/ calls < MaxRuns /\ RunEffect
    \/ \E i \in 1..MaxResolvers : \E result \in ResolverResults(i) : ResolverSucceed(i, result)
    \/ \E i \in 1..MaxResolvers : ResolverFail(i)

SpecResolvers == InitResolvers /\ [][NextResolvers]_vars

\* calls of both forms, over raw environments that hold empty strings
InitRawEnv ==
    /\ envs = <<>>
    /\ envMetaStore = <<>>
    /\ last = [op |-> "none"]
    /\ \/ effect = NoEffect
       \/ \E opts \in RawResolverOpts : effect = ConstructedEffect(opts)
    /\ introspectOnly = FALSE
    /\ processEnv \in RawEnvs
    /\ calls = 0
    /\ declared = <<>>

NextRawEnv ==
    \/ calls < MaxValidateCalls /\ \E opts \in RawOpts : CreateEnv(opts)
    \/ calls < MaxRuns /\ RunEffect
    \/ \E i \in 1..MaxResolvers : \E result \in ResolverResults(i) : ResolverSucceed(i, result)
    \/ \E i \in 1..MaxResolvers : ResolverFail(i)

SpecRawEnv == InitRawEnv /\ [][NextRawEnv]_vars

\* withDefault schemas decoding raw values
NextDefaults ==
    \E schema \in DefaultedSchemas, d \in Defaults, raw \in RawValues :
        DecodeUnknownEither(withDefault(schema, d), raw)

SpecDefaults == InitWith({[n \in {} |-> Undefined]}) /\ [][NextDefaults]_vars

\* a document that is encoded and decoded again
InitCodec ==
    /\ envs = <<>>
    /\ envMetaStore = <<>>
    /\ \E document \in Documents : last = [op |-> "document", document |-> document]
    /\ effect = NoEffect
    /\ introspectOnly = FALSE
    /\ processEnv = [n \in {} |-> Undefined]
    /\ calls = 0
    /\ declared = <<>>

NextCodec == EncodeDotenvText \/ DecodeEncoded

SpecCodec == InitCodec /\ [][NextCodec]_vars

\* the schema module imported by `add example`, under the sentinel
NextIntrospect ==
    \/ calls < MaxValidateCalls /\ \E opts \in ValidateOpts : CreateEnv(opts)
    \/ SetIntrospectOnly
    \/ ClearIntrospectOnly

SpecIntrospect == InitValidate /\ [][NextIntrospect]_vars

\* an example file that goes through `add env` and `add example` in turn
InitRoundTrip ==
    /\ envs = <<>>
    /\ envMetaStore = <<>>
    /\ \E text \in RoundTripTexts, force \in BOOLEAN :
          last = InputFile(text, AddEnvOptions(Absent, Absent, Absent, Absent, force))
    /\ effect = NoEffect
    /\ introspectOnly = FALSE
    /\ processEnv = [n \in {} |-> Undefined]
    /\ calls = 0
    /\ declared = <<>>

NextRoundTrip == RunAddEnv \/ RunAddExample

SpecRoundTrip == InitRoundTrip /\ [][NextRoundTrip]_vars

\* an example file whose buckets and schema keys `add env` infers
InitInfer ==
    /\ envs = <<>>
    /\ envMetaStore = <<>>
    /\ \E text \in InferTexts, options \in InferOptions : last = InputFile(text, options)
    /\ effect = NoEffect
    /\ introspectOnly = FALSE
    /\ processEnv = [n \in {} |-> Undefined]
    /\ calls = 0
    /\ declared = <<>>

NextInfer == RunAddEnv

SpecInfer == InitInfer /\ [][NextInfer]_vars

\* an example file, with directives the parser rejects, that `add env` decodes
InitDecode ==
    /\ envs = <<>>
    /\ envMetaStore = <<>>
    /\ \E text \in DecodeTexts :
          last = InputFile(text, AddEnvOptions(Absent, Absent, Absent, Absent, TRUE))
    /\ effect = NoEffect
    /\ introspectOnly = FALSE
    /\ processEnv = [n \in {} |-> Undefined]
    /\ calls = 0
    /\ declared = <<>>

NextDecode == RunAddEnv

SpecDecode == InitDecode /\ [][NextDecode]_vars

\* an example file with embedded prefixes, and the flags of `add env`
InitPrefix ==
    /\ envs = <<>>
    /\ envMetaStore = <<>>
    /\ \E text \in PrefixTexts, options \in PrefixOptions : last = InputFile(text, options)
    /\ effect = NoEffect
    /\ introspectOnly = FALSE
    /\ processEnv = [n \in {} |-> Undefined]
    /\ calls = 0
    /\ declared = <<>>

NextPrefix == RunAddEnv

SpecPrefix == InitPrefix /\ [][NextPrefix]_vars

\* fromRemoteSecrets on clients whose calls resolve or reject
InitRemote ==
    /\ envs = <<>>
    /\ envMetaStore = <<>>
    /\ last \in {[op |-> "remote", opts |-> opts] : opts \in RemoteOpts}
    /\ effect = NoEffect
    /\ introspectOnly = FALSE
    /\ processEnv = [n \in {} |-> Undefined]
    /\ calls = 0
    /\ declared = <<>>

NextRemote ==
    \/ FromRemoteSecrets
    \/ /\ effect.status = "fetching"
       /\ \E i \in DOMAIN effect.fetches :
             \E value \in {SecretValue(SecretIdsOf(effect.opts)[i]), Undefined} :
                GetSecretResolves(i, value)
    \/ /\ effect.status = "fetching"
       /\ \E i \in DOMAIN effect.fetches : GetSecretRejects(i)
    \/ /\ effect.status = "batch"
       /\ \E batchResult \in BatchResults(SecretIdsOf(effect.opts)) :
             GetSecretsResolves(batchResult)
    \/ GetSecretsRejects

SpecRemote == InitRemote /\ [][NextRemote]_vars

\* examineSchema on kind schemas under every stack of wrappers
InitExamine ==
    /\ envs = <<>>
    /\ envMetaStore = <<>>
    /\ last \in {[op |-> "schema", base |-> k.schema, stack |-> stack, d |-> k.d,
                  schema |-> Wrap(k.schema, stack, k.d)] :
                    k \in KindSchemas, stack \in WrapperStacks}
    /\ effect = NoEffect
    /\ introspectOnly = FALSE
    /\ processEnv = [n \in {} |-> Undefined]
    /\ calls = 0
    /\ declared = <<>>

NextExamine == ExamineSchema

SpecExamine == InitExamine /\ [][NextExamine]_vars

\* environments that extend one another, and every way of reading values
\* out of their proxies
NextClient ==
    \/ calls < MaxCalls /\ \E opts \in ChainOpts : CreateEnv(opts)
    \/ \E e \in 1..Len(envs), prop \in Keys : Get(e, prop)
    \/ \E e \in 1..Len(envs) : ObjectEntries(e)
    \/ \E e \in 1..Len(envs) : ObjectSpread(e)
    \/ \E e \in 1..Len(envs) : JsonStringify(e)
    \/ \E e \in 1..Len(envs), prop \in Keys : GetOwnPropertyDescriptor(e, prop)

SpecClient == Init /\ [][NextClient]_vars

\* createEnv effects whose validation reports to a callback
InitCallbacks ==
    /\ envs = <<>>
    /\ envMetaStore = <<>>
    /\ last = [op |-> "none"]
    /\ \E opts \in CallbackResolverOpts : effect = ConstructedEffect(opts)
    /\ introspectOnly = FALSE
    /\ processEnv \in ResolverEnvs \cup {[n \in AllNames |-> "x"]}
    /\ calls = 0
    /\ declared = <<>>

NextCallbacks ==
    \/ calls < MaxRuns /\ RunEffect
    \/ \E i \in 1..MaxResolvers : \E result \in ResolverResults(i) : ResolverSucceed(i, result)
    \/ \E i \in 1..MaxResolvers : ResolverFail(i)

SpecCallbacks == InitCallbacks /\ [][NextCallbacks]_vars

\* calls that declare a key in several buckets
NextBuckets == calls < MaxValidateCalls /\ \E opts \in BucketOpts : CreateEnv(opts)

SpecBuckets == InitWith({BucketEnv}) /\ [][NextBuckets]_vars

\* an example file with directives of both sorts above its assignment
InitDirectives ==
    /\ envs = <<>>
    /\ envMetaStore = <<>>
    /\ \E text \in DirectiveTexts :
          last = InputFile(text, AddEnvOptions(Absent, Absent, Absent, Absent, TRUE))
    /\ effect = NoEffect
    /\ introspectOnly = FALSE
    /\ processEnv = [n \in {} |-> Undefined]
    /\ calls = 0
    /\ declared = <<>>

NextDirectives == RunAddEnv

SpecDirectives == InitDirectives /\ [][NextDirectives]_vars

-----------------------------------------------------------------------------
(* Properties of validation (SpecValidate) *)

\* the keys a call selects for validation
SelectedKeys(opts) ==
    IF opts.isServer
    THEN DOMAIN opts.server \cup DOMAIN opts.client \cup DOMAIN opts.shared
    ELSE DOMAIN opts.client \cup DOMAIN opts.shared

\* the schema a selected key is decoded with
SchemaOfKey(opts, key) ==
    IF key \in DOMAIN opts.shared THEN opts.shared[key]
    ELSE IF key \in DOMAIN opts.client THEN opts.client[key]
    ELSE opts.server[key]

\* the name a key is looked up under
NameOfKey(opts, key) ==
    LET prefixMap == resolvePrefixMap(opts.prefix) IN
    IF key \in DOMAIN opts.client THEN prefixMap.client \o key
    ELSE IF key \in DOMAIN opts.shared THEN prefixMap.shared \o key
    ELSE prefixMap.server \o key

\* the key, taken alone, fails decoding against the raw environment
FailsAlone(opts, key, rawEnv) ==
    Decode(SchemaOfKey(opts, key), Lookup(rawEnv, NameOfKey(opts, key))).tag # "Right"

FailingKeys(opts, rawEnv) == {key \in SelectedKeys(opts) : FailsAlone(opts, key, rawEnv)}

Validated == last.op = "createEnv" /\ last.outcome # "noop"

\* C1: a createEnv call either returns a result with a decoded value for every
\* selected key, or fails with a validation error that carries one error per
\* selected key that fails decoding.
C1_AllOrEveryError ==
    Validated =>
        \/ /\ last.outcome = "env"
           /\ SelectedKeys(last.opts) \subseteq DOMAIN envs[last.env].target
        \/ /\ last.outcome = "error"
           /\ last.error.type = "EnvValidationError"
           /\ Len(last.error.errors) = Cardinality(FailingKeys(last.opts, processEnv))

\* the keys declared in the server dictionary only
ServerOnlyKeys(opts) == DOMAIN opts.server \ (DOMAIN opts.client \cup DOMAIN opts.shared)

\* C3: with isServer false, a key declared only in the server dictionary
\* contributes no error line, and the call succeeds whenever the client and
\* shared keys decode.
C3_ServerSchemasNotEvaluatedOnClient ==
    (Validated /\ ~last.opts.isServer) =>
        /\ \A key \in ServerOnlyKeys(last.opts), n \in 1..Len(last.error.errors) :
               last.error.errors[n] # ErrorLine(NameOfKey(last.opts, key))
        /\ FailingKeys(last.opts, processEnv) = {} => last.outcome = "env"
        /\ last.outcome = "env" =>
               DOMAIN envs[last.env].target \cap ServerOnlyKeys(last.opts) = {}

\* a client-side call succeeded although a server-only key is missing or
\* invalid
C3_Witness ==
    /\ Validated
    /\ ~last.opts.isServer
    /\ last.outcome = "env"
    /\ \E key \in ServerOnlyKeys(last.opts) :
           Decode(last.opts.server[key],
                  Lookup(processEnv, resolvePrefixMap(last.opts.prefix).server \o key)).tag
               # "Right"

\* C9: the synchronous form throws only the validation error, the effect
\* fails only with a resolver error or a validation error.
C9_OnlyTypedErrors ==
    /\ (last.op = "createEnv" /\ last.outcome = "error") =>
           last.error.type = "EnvValidationError"
    /\ (last.op = "runEffect" /\ last.outcome = "error") =>
           last.error.type \in {"ResolverError", "EnvValidationError"}

-----------------------------------------------------------------------------
(* Properties of the access guard (Spec) and of the read-only proxy
   (SpecReadOnly) *)

\* the keys of a category an environment declares or inherits through extends
RECURSIVE AggregateKeys(_, _)
AggregateKeys(e, category) ==
    declared[e][category]
    \cup UNION {AggregateKeys(declared[e].extends[n], category) :
                    n \in 1..Len(declared[e].extends)}

ServerOnly(e, prop) ==
    /\ prop \in AggregateKeys(e, "serverKeys")
    /\ prop \notin AggregateKeys(e, "clientKeys")
    /\ prop \notin AggregateKeys(e, "sharedKeys")

\* C2: a read raises the client-access error exactly when isServer is false
\* and the key is server-only in the aggregate key sets, inherited keys
\* included; no read raises anything else.
C2_ClientAccessGuard ==
    last.op = "get" =>
        /\ last.error.type \in {"none", "ClientAccessError"}
        /\ last.error.type = "ClientAccessError"
               <=> (~envs[last.env].isServer /\ ServerOnly(last.env, last.prop))
        /\ last.error.type = "ClientAccessError" => last.error.name = last.prop

\* a client-side read of a server key the environment inherited was refused
C2_Witness ==
    /\ last.op = "get"
    /\ last.error.type = "ClientAccessError"
    /\ last.prop \notin declared[last.env].serverKeys
    /\ last.prop \in DOMAIN envs[last.env].target

\* the proxy operations that would change the object
MutatingOps == {"set", "deleteProperty", "defineProperty"}

\* C10: a write, a delete or a property redefinition is rejected with an
\* error and leaves every environment as it was.
C10_ReadOnly ==
    [][last'.op \in MutatingOps => (last'.error.type = "TypeError" /\ envs' = envs)]_vars

\* a write to a key the environment holds was rejected
C10_Witness ==
    /\ last.op = "set"
    /\ last.error.type = "TypeError"
    /\ last.prop \in DOMAIN envs[last.env].target
    /\ envs[last.env].target[last.prop] \notin WrittenValues

\* C27: a createEnv call that returns an environment writes the metadata
\* entry of that environment, and of no other, in the step that returns it:
\* every environment has its entry from then on, and no step writes an
\* entry again.
C27_MetaWrittenOnce ==
    [][/\ Len(envMetaStore') = Len(envs')
       /\ Len(envs') \in {Len(envs), Len(envs) + 1}
       /\ SubSeq(envMetaStore', 1, Len(envMetaStore)) = envMetaStore]_vars

\* an environment was extended and read after it was created, and its entry
\* is the one written with it
C27_Witness ==
    /\ Len(envs) = 2
    /\ Len(envMetaStore) = 2
    /\ declared[2].extends = <<1>>
    /\ last.op = "get"
    /\ envMetaStore[1].serverKeys = declared[1].serverKeys
    /\ envMetaStore[1].serverKeys # {}

-----------------------------------------------------------------------------
(* Properties of the createEnv effect (SpecResolvers) *)

\* every resolver has completed, so the results were merged
Merged == effect.status \in {"succeeded", "failed"} /\ effect.merged # NotMerged

\* the effect has produced a resolved environment
Resolved == effect.status = "succeeded" /\ last.op = "runEffect" /\ last.outcome = "env"

\* the resolvers that supplied the name, with any value
Suppliers(name) ==
    {i \in DOMAIN effect.fibers :
        effect.fibers[i].state = "done" /\ name \in DOMAIN effect.fibers[i].result}

\* some resolver supplied a defined value for the name
SuppliedDefined(name) ==
    \E i \in Suppliers(name) : effect.fibers[i].result[name] # Undefined

Latest(S) == CHOOSE i \in S : \A j \in S : j <= i

\* the redaction wrappers the schema itself asks for
RECURSIVE SchemaWrappers(_)
SchemaWrappers(schema) ==
    CASE schema.kind = "redacted" -> 1 + SchemaWrappers(schema.inner)
      [] schema.kind \in {"withDefault", "optional"} -> SchemaWrappers(schema.inner)
      [] OTHER -> 0

\* C4: the validated environment is layered by position: the base
\* environment lowest, then the resolvers in the order of the resolvers
\* array, whatever order they completed in.
C4_MergedInDeclaredOrder ==
    Merged =>
        /\ DOMAIN effect.merged.mergedEnv
               = DOMAIN processEnv \cup {name \in ResolverNames : Suppliers(name) # {}}
        /\ \A name \in DOMAIN effect.merged.mergedEnv :
               effect.merged.mergedEnv[name]
                   = IF Suppliers(name) = {} THEN processEnv[name]
                     ELSE effect.fibers[Latest(Suppliers(name))].result[name]

\* the resolver declared last completed first, and its value still won over
\* the value of the first resolver and over the base environment
C4_Witness ==
    /\ Merged
    /\ Len(effect.order) > 1
    /\ effect.order[1] = Len(effect.fibers)
    /\ "A" \in DOMAIN processEnv
    /\ Suppliers("A") = DOMAIN effect.fibers
    /\ \A i \in DOMAIN effect.fibers : effect.fibers[i].result["A"] # Undefined
    /\ effect.merged.mergedEnv["A"] = ResolverValue(Len(effect.fibers))

\* C5: if a resolver fails, the effect fails with the error of that resolver
\* and produces no environment.
C5_ResolverFailureFailsEffect ==
    \A i \in DOMAIN effect.fibers :
        effect.fibers[i].state = "failed" =>
            /\ effect.status = "failed"
            /\ last.op = "runEffect"
            /\ last.outcome = "error"
            /\ last.error = ResolverError(ResolverValue(i))
            /\ last.env = 0
            /\ Len(envs) < calls
            /\ effect.merged = NotMerged

\* a resolver failed after another one had succeeded
C5_Witness ==
    /\ \E i \in DOMAIN effect.fibers : effect.fibers[i].state = "failed"
    /\ \E j \in DOMAIN effect.fibers : effect.fibers[j].state = "done"

\* C6: unless autoRedactResolver is false, every validated key whose name a
\* resolver supplied a defined value for is wrapped in the redaction marker.
C6_ResolverKeysRedacted ==
    (Resolved /\ effect.opts.autoRedactResolver # "false") =>
        \A key \in SelectedKeys(effect.opts) :
            SuppliedDefined(NameOfKey(effect.opts, key)) =>
                /\ key \in DOMAIN envs[last.env].target
                /\ IsRedacted(envs[last.env].target[key])

\* a key whose schema does not ask for redaction, supplied by the second
\* resolver under the prefixed name, is wrapped
C6_Witness ==
    /\ Resolved
    /\ effect.opts.prefix = PrefixString("P_")
    /\ SchemaWrappers(effect.opts.server["A"]) = 0
    /\ ~SuppliedDefined("A")
    /\ 1 \notin Suppliers("P_A")
    /\ SuppliedDefined("P_A")
    /\ envs[last.env].target["A"].red = 1

\* C7: a validated key whose name no resolver supplied a defined value for is
\* not wrapped by auto-redaction: it carries the wrappers of its schema only.
C7_OtherKeysNotAutoRedacted ==
    Resolved =>
        \A key \in DOMAIN envs[last.env].target :
            ~SuppliedDefined(NameOfKey(effect.opts, key)) =>
                envs[last.env].target[key].red
                    = SchemaWrappers(SchemaOfKey(effect.opts, key))

\* with auto-redaction on, a key from the base environment and a key a
\* resolver returned undefined for are both plain, next to nothing wrapped
C7_Witness ==
    /\ Resolved
    /\ effect.opts.autoRedactResolver # "false"
    /\ effect.opts.prefix = PrefixUndefined
    /\ Suppliers("A") # {}
    /\ ~SuppliedDefined("A")
    /\ SuppliedDefined("P_A")
    /\ DOMAIN envs[last.env].target = {"A", "B"}
    /\ envs[last.env].target["A"].red = 0
    /\ envs[last.env].target["B"].red = 0

\* C8: a value whose schema is redacted(...) is wrapped exactly once, whether
\* or not a resolver supplied the key.
C8_NoDoubleWrap ==
    Resolved =>
        \A key \in DOMAIN envs[last.env].target :
            SchemaOfKey(effect.opts, key).kind = "redacted" =>
                envs[last.env].target[key].red = 1

\* an explicitly redacted key that a resolver supplied, with auto-redaction on
C8_Witness ==
    /\ Resolved
    /\ effect.opts.autoRedactResolver # "false"
    /\ effect.opts.server["A"].kind = "redacted"
    /\ SuppliedDefined(NameOfKey(effect.opts, "A"))
    /\ envs[last.env].target["A"].red = 1

\* the resolvers that supplied a defined value for the name
DefinedSuppliers(name) ==
    {i \in Suppliers(name) : effect.fibers[i].result[name] # Undefined}

\* C24: the value validated under a name is the last defined value among
\* the base environment and the results of the resolvers in declared order:
\* a result that holds undefined for the name overrides nothing.
C24_UndefinedOverridesNothing ==
    Merged =>
        \A name \in DOMAIN effect.merged.mergedEnv :
            effect.merged.mergedEnv[name]
                = IF DefinedSuppliers(name) # {}
                  THEN effect.fibers[Latest(DefinedSuppliers(name))].result[name]
                  ELSE Lookup(processEnv, name)

-----------------------------------------------------------------------------
(* Properties of the merge with extended environments (SpecExtends) *)

\* the positions of the extends list whose environment holds the key
Holders(opts, key) ==
    {n \in 1..Len(opts.extends) : key \in DOMAIN envs[opts.extends[n]].target}

\* C11: in the merged result a key validated in this call has its freshly
\* validated value; any other key has the value held by the last entry of
\* the extends list that contains it, whatever the raw environment of this
\* call says about it.
C11_MergedValues ==
    (last.op = "createEnv" /\ last.outcome = "env") =>
        LET opts == last.opts
            target == envs[last.env].target
        IN  /\ DOMAIN target
                   = SelectedKeys(opts) \cup {key \in Keys : Holders(opts, key) # {}}
            /\ \A key \in DOMAIN target :
                   target[key]
                       = IF key \in SelectedKeys(opts)
                         THEN Decode(SchemaOfKey(opts, key),
                                     Lookup(RawOf(opts), NameOfKey(opts, key))).value
                         ELSE envs[opts.extends[Latest(Holders(opts, key))]].target[key]

\* two extended environments hold different values of A, the call validates
\* B only, and its own raw environment has a third opinion on A: the value
\* of the second entry is kept
C11_Witness ==
    /\ last.op = "createEnv"
    /\ last.outcome = "env"
    /\ Len(last.opts.extends) = 2
    /\ DOMAIN last.opts.server = {"B"}
    /\ Holders(last.opts, "A") = {1, 2}
    /\ envs[last.opts.extends[1]].target["A"] # envs[last.opts.extends[2]].target["A"]
    /\ envs[last.env].target["A"] = envs[last.opts.extends[2]].target["A"]
    /\ StrVal(Lookup(RawOf(last.opts), "A")) # envs[last.env].target["A"]

-----------------------------------------------------------------------------
(* Properties of the raw environment (SpecRawEnv) *)

\* C12: no step of createEnv changes the raw environment it reads: the
\* ambient process environment stays as it is, and so does the object the
\* call read, through the normalisation of empty strings and through the
\* merge of the resolver results.
C12_RawEnvNotMutated ==
    [][/\ processEnv' = processEnv
       /\ (last'.op \in {"createEnv", "runEffect"} /\ last'.outcome # "pending")
              => last'.raw = RawOf(last'.opts)]_vars

\* an empty string was normalised to undefined for the validation, a
\* resolver result was merged over the raw environment, and the ambient
\* environment that was read still holds the empty string
C12_Witness ==
    /\ last.op = "runEffect"
    /\ last.outcome = "env"
    /\ ~last.opts.runtimeEnv.given
    /\ last.opts.emptyStringAsUndefined
    /\ effect.merged.mergedEnv["A"] = ""
    /\ effect.merged.mergedEnv["P_A"] # processEnv["P_A"]
    /\ envs[last.env].target["A"] = UndefVal
    /\ processEnv["A"] = ""

-----------------------------------------------------------------------------
(* Properties of withDefault (SpecDefaults) *)

\* undefined was decoded with a withDefault schema
DecodedMissing ==
    last.op = "decode" /\ last.schema.kind = "withDefault" /\ last.raw = Undefined

\* the wrapped schema, on its own, decodes undefined to a defined value
HandlesMissing(schema) ==
    Decode(schema, Undefined).tag = "Right" /\ Decode(schema, Undefined).value # UndefVal

\* the default is a value of the decoded type of the schema
RECURSIVE ValidDefault(_, _)
ValidDefault(schema, d) ==
    CASE schema.kind \in {"optional", "withDefault"} -> ValidDefault(schema.inner, d)
      [] schema.kind = "redacted" ->
            d.red = 1 /\ ValidDefault(schema.inner, [d EXCEPT !.red = 0])
      [] schema.kind = "requiredString" -> d.red = 0 /\ d.t = "string" /\ d.s # ""
      [] schema.kind = "commaSeparatedNumbers" -> d.red = 0 /\ d.t = "array"

\* C13 as stated: decoding undefined with withDefault(schema, d) yields d,
\* for every schema and every default.
C13_DefaultAlways ==
    DecodedMissing => last.result = Right(last.schema.d)

\* C13 amended: decoding undefined with withDefault(schema, d) yields d when
\* d is a value of the decoded type of schema, and fails when it is not; a
\* schema that decodes undefined to a defined value by itself is left aside.
C13_ValidDefault ==
    (DecodedMissing /\ ~HandlesMissing(last.schema.inner)) =>
        IF ValidDefault(last.schema.inner, last.schema.d)
        THEN last.result = Right(last.schema.d)
        ELSE last.result.tag = "Left"

\* a schema that rejects undefined on its own yielded the default
C13_Witness ==
    /\ DecodedMissing
    /\ last.schema.inner = requiredString
    /\ Decode(requiredString, Undefined).tag = "Left"
    /\ last.result = Right(StrVal("d"))

-----------------------------------------------------------------------------
(* Properties of the dotenv codec (SpecCodec) *)

\* a document was encoded and the text decoded again
RoundTripped == last.op = "decodeDotenvText"

\* the entries of a document with the key
EntriesOf(document, key) ==
    {document.entries[i] : i \in {j \in 1..Len(document.entries) :
                                     document.entries[j].key = key}}

\* C14 as stated: for every entry, the round trip preserves every directive
\* the document holds (type, optional, no-default, redacted, enum values),
\* and it preserves every prefix entry.
C14_EveryDirectivePreserved ==
    RoundTripped =>
        /\ last.error = NoParseError
        /\ \A i \in 1..Len(last.document.entries) :
               LET entry == last.document.entries[i] IN
               \E back \in EntriesOf(last.decoded, entry.key) :
                   /\ entry.directives.type # Absent
                          => back.directives.type = entry.directives.type
                   /\ entry.directives.optional # Absent
                          => back.directives.optional = entry.directives.optional
                   /\ entry.directives.hasDefault # Absent
                          => back.directives.hasDefault = entry.directives.hasDefault
                   /\ entry.directives.redacted # Absent
                          => back.directives.redacted = entry.directives.redacted
                   /\ entry.directives.stringEnumValues # <<>>
                          => back.directives.stringEnumValues
                                 = entry.directives.stringEnumValues
        /\ \A bucket \in Buckets :
               last.document.prefix[bucket] # Absent
                   => last.decoded.prefix[bucket] = last.document.prefix[bucket]

\* C14 amended: the round trip preserves, for every entry, the enum type
\* with its values, optional and redacted when they are true and no-default,
\* and it preserves every non-empty prefix entry; a type other than enum and
\* a directive that is false come back unset.
C14_WrittenDirectivesPreserved ==
    RoundTripped =>
        /\ last.error = NoParseError
        /\ \A i \in 1..Len(last.document.entries) :
               LET entry == last.document.entries[i]
                   enum == entry.directives.type = "stringEnum"
                               /\ entry.directives.stringEnumValues # <<>>
               IN  /\ Cardinality(EntriesOf(last.decoded, entry.key)) = 1
                   /\ \A back \in EntriesOf(last.decoded, entry.key) :
                       /\ back.value = entry.value
                       /\ back.directives.type = IF enum THEN "stringEnum" ELSE Absent
                       /\ back.directives.stringEnumValues
                              = IF enum THEN entry.directives.stringEnumValues ELSE <<>>
                       /\ back.directives.optional
                              = IF entry.directives.optional = "true" THEN "true" ELSE Absent
                       /\ back.directives.hasDefault
                              = IF entry.directives.hasDefault = "false" THEN "false"
                                ELSE Absent
                       /\ back.directives.redacted
                              = IF entry.directives.redacted = "true" THEN "true" ELSE Absent
        /\ \A bucket \in Buckets :
               last.document.prefix[bucket] \notin {Absent, ""}
                   => last.decoded.prefix[bucket] = last.document.prefix[bucket]

\* two entries in different buckets came back, one of them with an enum
\* type, optional, no-default and redacted, under a prefixed section
C14_Witness ==
    /\ RoundTripped
    /\ last.document.prefix["server"] = "S_"
    /\ last.decoded.prefix["server"] = "S_"
    /\ Len(last.decoded.entries) = 2
    /\ \E back \in EntriesOf(last.decoded, "B") :
           /\ back.sectionBucket = "server"
           /\ back.directives = [type |-> "stringEnum", optional |-> "true",
                                 hasDefault |-> "false", redacted |-> "true",
                                 bucket |-> Absent, stringEnumValues |-> <<"dev", "prod">>]
    /\ \E back \in EntriesOf(last.decoded, "A") : back.sectionBucket = "client"

-----------------------------------------------------------------------------
(* Properties of the round trip of the CLI (SpecRoundTrip) *)

\* C15: when `add env` runs on the example that `add example` built from the
\* source of the run before, it generates the same source byte for byte.
C15_RoundTripStable ==
    (last.op = "add env" /\ last.pass >= 2) =>
        (last.written /\ last.envTs = last.previous)

-----------------------------------------------------------------------------
(* Properties of the inference (SpecInfer) *)

\* the model `add env` inferred last
Inferred == last.op = "add env" /\ last.error = NoParseError /\ last.inferError = NoInferError

\* the entry of the decoded document a variable was inferred from
EntryOf(variable) ==
    CHOOSE entry \in {last.dotenv.entries[i] : i \in 1..Len(last.dotenv.entries)} :
        entry.line = variable.sourceLine

\* the buckets whose configured prefix is not empty and starts the key
MatchingBuckets(key) ==
    {b \in Buckets : last.prefix[b] # "" /\ StartsWith(key, last.prefix[b])}

\* the buckets, among the matching ones, of the longest prefix
LongestMatching(key) ==
    {b \in MatchingBuckets(key) :
        \A other \in MatchingBuckets(key) : Len(last.prefix[other]) <= Len(last.prefix[b])}

\* C16: the bucket of every inferred variable is the bucket directive of its
\* assignment if there is one, else the section bucket if there is one, else
\* the bucket of a longest matching prefix, else server with the key unchanged.
C16_BucketPrecedence ==
    Inferred =>
        \A i \in 1..Len(last.model.variables) :
            LET v == last.model.variables[i]
                entry == EntryOf(v)
            IN  IF entry.directives.bucket # Absent THEN v.bucket = entry.directives.bucket
                ELSE IF entry.sectionBucket # Absent THEN v.bucket = entry.sectionBucket
                ELSE IF MatchingBuckets(entry.key) # {}
                THEN v.bucket \in LongestMatching(entry.key)
                ELSE v.bucket = "server" /\ v.schemaKey = entry.key

C16_Witness ==
    /\ Inferred
    /\ \E i \in 1..Len(last.model.variables) :
          LET v == last.model.variables[i]
              entry == EntryOf(v)
          IN  /\ entry.directives.bucket # Absent
              /\ entry.sectionBucket \notin {Absent, entry.directives.bucket}
              /\ MatchingBuckets(entry.key) # {}
              /\ LongestMatching(entry.key)
                     \cap {entry.directives.bucket, entry.sectionBucket} = {}
              /\ v.bucket = entry.directives.bucket
    /\ \E i \in 1..Len(last.model.variables) :
          LET v == last.model.variables[i]
              entry == EntryOf(v)
          IN  /\ entry.directives.bucket = Absent
              /\ entry.sectionBucket # Absent
              /\ MatchingBuckets(entry.key) # {}
              /\ entry.sectionBucket \notin LongestMatching(entry.key)
              /\ v.bucket = entry.sectionBucket

\* C17: an assignment without bucket directive and section bucket, whose key
\* starts with several configured prefixes, gets the bucket of a prefix that
\* no other matching prefix is longer than, and loses that prefix.
C17_LongestPrefixWins ==
    Inferred =>
        \A i \in 1..Len(last.model.variables) :
            LET v == last.model.variables[i]
                entry == EntryOf(v)
            IN  (/\ entry.directives.bucket = Absent
                 /\ entry.sectionBucket = Absent
                 /\ MatchingBuckets(entry.key) # {}) =>
                    /\ v.bucket \in MatchingBuckets(entry.key)
                    /\ \A other \in MatchingBuckets(entry.key) :
                          Len(last.prefix[other]) <= Len(last.prefix[v.bucket])
                    /\ last.prefix[v.bucket] \o v.schemaKey = entry.key

C17_Witness ==
    /\ Inferred
    /\ \E i \in 1..Len(last.model.variables) :
          LET v == last.model.variables[i]
              entry == EntryOf(v)
          IN  /\ entry.directives.bucket = Absent
              /\ entry.sectionBucket = Absent
              /\ "client" \in MatchingBuckets(entry.key)
              /\ \E other \in MatchingBuckets(entry.key) :
                    Len(last.prefix[other]) > Len(last.prefix["client"])
              /\ v.bucket # "client"

\* the bucket and schema key an entry of the decoded document resolves to
PairOf(entry) ==
    LET resolved == resolveBucketAndSchemaKey(entry.key, last.prefix, entry.directives.bucket,
                                              entry.sectionBucket)
    IN  <<resolved.bucket, resolved.schemaKey>>

\* the positions of the entries that repeat the pair of an earlier entry
Repeats ==
    {j \in 1..Len(last.dotenv.entries) :
        \E i \in 1..(j - 1) : PairOf(last.dotenv.entries[i]) = PairOf(last.dotenv.entries[j])}

\* C18: an inferred model holds no two variables of one bucket and schema
\* key, and a document in which an entry repeats the pair of an earlier one
\* gives no model but an error that names the schema key, the bucket and the
\* line of the first entry that repeats.
C18_NoDuplicatePair ==
    (last.op = "add env" /\ last.error = NoParseError) =>
        /\ \A i, j \in 1..Len(last.model.variables) :
              (last.model.variables[i].bucket = last.model.variables[j].bucket
               /\ last.model.variables[i].schemaKey = last.model.variables[j].schemaKey)
                  => i = j
        /\ Repeats # {} =>
              LET first == CHOOSE j \in Repeats : \A k \in Repeats : j <= k
                  entry == last.dotenv.entries[first]
              IN  /\ ~last.written
                  /\ last.inferError =
                        DuplicateError(PairOf(entry)[2], PairOf(entry)[1], entry.line)
        /\ Repeats = {} => last.inferError = NoInferError

C18_Witness ==
    /\ last.op = "add env"
    /\ last.error = NoParseError
    /\ \E i, j \in 1..Len(last.dotenv.entries) :
          /\ i < j
          /\ last.dotenv.entries[i].key # last.dotenv.entries[j].key
          /\ PairOf(last.dotenv.entries[i]) = PairOf(last.dotenv.entries[j])
    /\ last.inferError # NoInferError
    /\ last.inferError.line > 1

\* C29: for every inferred variable, the configured prefix of its bucket
\* followed by its schema key is its runtime key, the name the example file
\* assigned.
C29_PrefixAndSchemaKeyGiveRuntimeKey ==
    Inferred =>
        \A i \in 1..Len(last.model.variables) :
            LET v == last.model.variables[i]
            IN  /\ v.runtimeKey = EntryOf(v).key
                /\ last.model.prefix[v.bucket] \o v.schemaKey = v.runtimeKey

-----------------------------------------------------------------------------
(* Properties of the parse errors (SpecDecode) *)

\* the names of the directives
KnownDirectives == Buckets \cup {"type", "optional", "no-default", "redacted", "bucket"}

\* a token with an unrecognized name, a type that is not recognized, no value
\* where one is required, or a boolean that is neither true nor false
Offending(token) ==
    \/ token.name \notin KnownDirectives
    \/ token.name = "type" /\ token.value \notin (DOMAIN AliasMap \cup {"enum"})
    \/ token.name = "type" /\ token.value = "enum" /\ token.list = <<>>
    \/ token.name = "bucket" /\ token.value = ""
    \/ token.name \in {"optional", "redacted"}
       /\ token.value \notin {"", "true", "false", "TRUE", "FALSE"}

\* the lines of a text that hold such a token
OffendingLines(text) ==
    {i \in 1..Len(text) : \E k \in 1..Len(text[i].tokens) : Offending(text[i].tokens[k])}

\* C19: a text with an unrecognized directive, an unrecognized type, a
\* directive without its required value or an invalid boolean token is not
\* decoded: the error thrown names the number of the first such line.
C19_ErrorsNameLine ==
    (last.op = "add env" /\ OffendingLines(last.text) # {}) =>
        /\ last.error # NoParseError
        /\ last.error.line = CHOOSE i \in OffendingLines(last.text) :
                                 \A j \in OffendingLines(last.text) : i <= j

-----------------------------------------------------------------------------
(* Properties of the prefix of `add env` (SpecPrefix) *)

\* the prefix flag of a bucket
FlagOf(options, bucket) ==
    CASE bucket = "server" -> options.serverPrefix
      [] bucket = "client" -> options.clientPrefix
      [] bucket = "shared" -> options.sharedPrefix

\* the prefix a text embeds for a bucket: the argument of the last section
\* header of the bucket that has one
EmbeddedPrefix(text, bucket) ==
    LET headers == {i \in 1..Len(text) :
                       /\ text[i].kind = "comment"
                       /\ \E k \in 1..Len(text[i].tokens) :
                             text[i].tokens[k].name = bucket /\ text[i].tokens[k].value # ""}
        header == text[CHOOSE i \in headers : \A j \in headers : j <= i]
        token == CHOOSE t \in {header.tokens[k] : k \in 1..Len(header.tokens)} :
                     t.name = bucket /\ t.value # ""
    IN  IF headers = {} THEN Absent ELSE token.value

\* C20: for every bucket, `add env` takes the prefix flag if it is given,
\* else the prefix of the framework preset if a framework is given, else the
\* prefix the text embeds, else the empty string.
C20_PrefixPrecedence ==
    (last.op = "add env" /\ last.error = NoParseError) =>
        \A bucket \in Buckets :
            last.prefix[bucket] =
                IF FlagOf(last.options, bucket) # Absent THEN FlagOf(last.options, bucket)
                ELSE IF last.options.framework # Absent
                THEN FRAMEWORK_PREFIXES[last.options.framework][bucket]
                ELSE IF EmbeddedPrefix(last.text, bucket) # Absent
                THEN EmbeddedPrefix(last.text, bucket)
                ELSE ""

C20_Witness ==
    /\ last.op = "add env"
    /\ last.written
    /\ last.options.framework # Absent
    /\ FlagOf(last.options, "client") = "CLI_"
    /\ FRAMEWORK_PREFIXES[last.options.framework]["client"] \notin {"", "CLI_"}
    /\ EmbeddedPrefix(last.text, "client") \notin {Absent, "CLI_"}
    /\ last.prefix["client"] = "CLI_"
    /\ FlagOf(last.options, "server") = Absent
    /\ EmbeddedPrefix(last.text, "server") \notin {Absent, ""}
    /\ last.prefix["server"] = FRAMEWORK_PREFIXES[last.options.framework]["server"]

-----------------------------------------------------------------------------
(* Properties of the remote secrets resolver (SpecRemote) *)

\* fromRemoteSecrets has settled after fetching every secret on its own
FetchedSingly ==
    /\ last.op = "fromRemoteSecrets"
    /\ last.getSecretsCalls = <<>>

\* some getSecret call of the run rejected
SomeFetchRejected ==
    \E i \in DOMAIN last.fetches : last.fetches[i].state = "rejected"

\* C21: when a getSecret call rejects and strict is unset or false, the
\* resolver succeeds, the key of the failed call is undefined and every
\* other requested key has the value its own call resolved with; when strict
\* is true the resolver fails with a ResolverError.
C21_FailureDegradesOneKey ==
    (FetchedSingly /\ SomeFetchRejected) =>
        IF last.opts.strict = "true"
        THEN last.outcome = "failure" /\ last.error = ResolverError("remote")
        ELSE /\ last.outcome = "success"
             /\ \A i \in DOMAIN last.fetches :
                   last.result[last.opts.secrets[i].envKey] =
                       IF last.fetches[i].state = "rejected" THEN Undefined
                       ELSE last.fetches[i].value

\* C22: getSecrets is called, once and with the requested IDs, exactly when
\* the client provides it and more than one ID is requested; otherwise
\* getSecrets is never called and getSecret is called once per requested ID.
C22_BatchExactlyWhenPossible ==
    effect.status # "idle" =>
        IF effect.opts.client.getSecrets /\ Len(effect.opts.secrets) > 1
        THEN /\ effect.getSecretsCalls = <<SecretIdsOf(effect.opts)>>
             /\ effect.getSecretCalls = <<>>
        ELSE /\ effect.getSecretsCalls = <<>>
             /\ effect.getSecretCalls = SecretIdsOf(effect.opts)

\* a batch call that resolved, and the record was built from its Map
C22_Witness ==
    /\ last.op = "fromRemoteSecrets"
    /\ last.outcome = "success"
    /\ last.getSecretsCalls # <<>>
    /\ last.opts.client.getSecrets
    /\ \E key \in DOMAIN last.result : last.result[key] # Undefined

-----------------------------------------------------------------------------
(* Properties of examineSchema (SpecExamine) *)

\* the wrapper is one of the stack the examined schema was built with
Wrapped(wrapper) == \E i \in 1..Len(last.stack) : last.stack[i] = wrapper

\* C23: for a kind schema under any subset of optional, withDefault and
\* redacted in any order, examineSchema returns the inner kind and, for each
\* wrapper, its flag exactly when the wrapper is present, with the default
\* value of withDefault.
C23_RecoversFullStack ==
    last.op = "examineSchema" =>
        /\ last.examined.kind = last.base.kind
        /\ last.examined.optional = Wrapped("optional")
        /\ last.examined.redacted = Wrapped("redacted")
        /\ last.examined.hasDefault = Wrapped("withDefault")
        /\ Wrapped("withDefault") => last.examined.defaultValue = last.d

-----------------------------------------------------------------------------
(* Properties of the reads of a client-side environment (SpecClient) *)

\* the operations that hand values of the environment to the caller
ReadingOps == {"get", "entries", "spread", "stringify", "getOwnPropertyDescriptor"}

\* the values the last operation handed to the caller, by key
YieldedValues ==
    IF last.op = "get"
    THEN IF last.error = NoError /\ last.prop \in DOMAIN envs[last.env].target
         THEN (last.prop :> last.value) ELSE EmptyValues
    ELSE last.yielded

\* C25: on an environment with isServer false, no property read, entry
\* enumeration, spread, JSON serialization or own-property-descriptor lookup
\* hands the caller the value of a server-only key, inherited keys included.
C25_NoBlockedValueRead ==
    (last.op \in ReadingOps /\ ~envs[last.env].isServer) =>
        \A key \in DOMAIN YieldedValues : ~ServerOnly(last.env, key)

-----------------------------------------------------------------------------
(* Properties of the start of validation (SpecCallbacks) *)

\* C26: in the resolver form, a schema is decoded or onValidationError is
\* called only when every resolver has completed successfully; if a
\* resolver has failed, no schema was decoded and the callback was not
\* called.
C26_ValidationAfterResolvers ==
    /\ effect.validation # NoValidation =>
           \A i \in DOMAIN effect.fibers : effect.fibers[i].state = "done"
    /\ (\E i \in DOMAIN effect.fibers : effect.fibers[i].state = "failed") =>
           effect.validation.decoded = 0 /\ effect.validation.callbackCalls = 0

\* two resolvers completed, the schemas were decoded and the callback was
\* called with the errors
C26_Witness ==
    /\ Len(effect.fibers) > 1
    /\ \A i \in DOMAIN effect.fibers : effect.fibers[i].state = "done"
    /\ effect.validation.decoded > 1
    /\ effect.validation.callbackCalls = 1
    /\ effect.status = "failed"

-----------------------------------------------------------------------------
(* Properties of keys declared in several buckets (SpecBuckets) *)

\* the bucket whose schema decoded the value: the server schemas give a
\* string, the client schemas a redacted string, the shared schemas an array
SchemaBucketOf(value) ==
    IF value.t = "array" THEN "shared"
    ELSE IF IsRedacted(value) THEN "client" ELSE "server"

\* the bucket whose prefix the value was looked up under
NameBucketOf(value) ==
    IF value.s = BucketEnv["SV_A"] THEN "server"
    ELSE IF value.s = BucketEnv["CL_A"] THEN "client" ELSE "shared"

\* the buckets of the call that declare the key
DeclaringBuckets(opts, key) == {b \in {"server", "client", "shared"} : key \in DOMAIN opts[b]}

\* C28: a key that one createEnv call declares in more than one bucket is
\* decoded by the schema of the bucket whose prefix its name was built with.
C28_SchemaAndPrefixAgree ==
    (last.op = "createEnv" /\ last.outcome = "env") =>
        \A key \in DOMAIN envs[last.env].target :
            Cardinality(DeclaringBuckets(last.opts, key)) > 1 =>
                SchemaBucketOf(envs[last.env].target[key])
                    = NameBucketOf(envs[last.env].target[key])

-----------------------------------------------------------------------------
(* Properties of the directives of comment lines (SpecDirectives) *)

\* the entry of the first assignment below line i of the decoded text
NextEntryAfter(i) ==
    CHOOSE entry \in {last.dotenv.entries[n] : n \in 1..Len(last.dotenv.entries)} :
        /\ entry.line > i
        /\ \A n \in 1..Len(last.dotenv.entries) :
              last.dotenv.entries[n].line > i => entry.line <= last.dotenv.entries[n].line

\* C30: every directive of a comment line that is not a section directive
\* is applied to the next assignment, whether or not a section directive
\* stands on its line or on a line between it and the assignment.
C30_CommentDirectivesReachAssignment ==
    (last.op = "add env" /\ last.error = NoParseError) =>
        \A i \in 1..Len(last.text) :
            last.text[i].kind = "comment" =>
                \A j \in 1..Len(last.text[i].tokens) :
                    last.text[i].tokens[j] \in MarkTokens =>
                        NextEntryAfter(i).directives[last.text[i].tokens[j].name] = "true"

====
